---- MODULE Spec2Model ----
(***************************************************************************)
(* A model of the SEC Form 4 collector: the sliding-window rate limiter    *)
(* (src/utils/rate_limiter.py), the bulk download-and-store path           *)
(* (src/data_collection/bulk_downloader.py), the three-stage pipeline      *)
(* (src/data_collection/bulk_processor.py) and the per-year progress       *)
(* tracking (main.py, comprehensive_scraper.py, database/db_manager.py).   *)
(***************************************************************************)
EXTENDS Integers, Sequences, FiniteSets, TLC

(***************************************************************************)
(* Bounds of the model.                                                    *)
(***************************************************************************)
MaxTime == 5
MaxCeiling == 2
MaxWindow == 2
MaxAdmissions == 4
NumThreads == 2
NumYears == 2
MaxRuns == 2
MaxHour == 40
HourStep == 13
NumAccs == 2
NumXml == 2
MaxFilings == 2
MaxBulkRuns == 2
MaxPipeStores == 1
MaxPipeFilings == 2
NumDownloadThreads == 2
NumParseThreads == 2
MaxBatchSize == 2
MaxOriginal == 4
MaxThrottles == 2
NumPrefilterAccs == 3
MaxRequested == 10
MaxReportAdmissions == 3
MaxCount == 1
MaxIntFilings == 1
MaxExtraFilings == 5
MaxSubmitted == 10

(***************************************************************************)
(* Generic helpers.                                                        *)
(***************************************************************************)
Range(s) == {s[i] : i \in 1..Len(s)}

Max2(a, b) == IF a >= b THEN a ELSE b

Min2(a, b) == IF a <= b THEN a ELSE b

VARIABLES
  \* ---- RateLimiter (rate_limiter.py) ----
  now,            \* time.time(), in ticks
  max_requests,   \* self.max_requests
  time_window,    \* self.time_window
  requests,       \* self.requests, the deque of recorded timestamps
  lock,           \* self.lock: 0 when free, else the thread holding it
  rpc,            \* per thread: "idle" or "sleeping" (inside time.sleep)
  rcur,           \* per thread: the local current_time of wait_if_needed
  rwake,          \* per thread: the instant time.sleep(wait_time) ends
  admissions      \* the instants at which wait_if_needed() returned

VARIABLES
  \* ---- progress tracking (main.py, comprehensive_scraper.py, db_manager.py) ----
  hour,             \* wall clock of the tracker, in hours
  downloaded_years, \* the downloaded_years table: year -> row (status "none": no row)
  opath,            \* the orchestrator of the running process: "cli", "scraper" or "none"
  oforce,           \* its force flag
  opc,              \* "idle" (no process), "loop" (between units), "unit" (inside one)
  years_to_process, \* its list of selected years
  oidx,             \* index in years_to_process of the current unit
  runNo,            \* number of orchestrator processes started so far
  intUnit,          \* the unit being processed when the last run was interrupted, 0 if none
  intSeen,          \* TRUE when the last run ended by an interrupt
  preInt            \* the table as it was when that interrupt arrived

VARIABLES
  \* ---- the store and the bulk path (bulk_downloader.py) ----
  store,          \* committed rows of form4_filings, each [acc, xml]
  all_filings,    \* the descriptor list given to download_and_store_filings
  bforce,         \* its force flag
  bpc,            \* "idle", "fetch" (a chunk is being downloaded), "store" (being stored)
  to_process,     \* filings_to_process
  chunk_i,        \* the loop variable i of the chunk loop (1-based)
  batch_results,  \* batch_results of the current chunk, in completion order
  fetched,        \* positions of to_process whose future has completed
  bstats,         \* stats of the run: downloaded, stored, errors, skipped
  batch_stats,    \* batch_stats of the current _batch_store_filings call
  sidx,           \* position in batch_results of the item stored next
  sess,           \* the SQLAlchemy session of the current _batch_store_filings call
  bulkRuns,       \* number of download_and_store_filings runs started
  passStart,      \* the committed rows when the current store pass began
  passSkip0,      \* stats['skipped'] when the current store pass began
  lastPass,       \* the last finished store pass: force, results, rows before
  hist,           \* the last two finished runs
  pipeStores,     \* number of pipeline store passes in SpecStore
  lastPipe        \* the last pipeline store pass: accession number and counters

VARIABLES
  \* ---- BulkProcessor (bulk_processor.py): the three-stage pipeline ----
  filings,        \* the descriptor list of the run
  batch_size,     \* self.batch_size
  cpc,            \* position of the coordinator (process_date_range)
  cidx,           \* position in filings of the descriptor queued next
  download_queue, \* items of self.download_queue
  parse_queue,    \* items of self.parse_queue
  storage_queue,  \* items of self.storage_queue
  unfinished,     \* unfinished_tasks of the three queues
  stop_event,     \* self.stop_event
  stats,          \* self.stats (ProcessingStats)
  dpc, ditem, dreg,   \* download workers: position, item held, counter value read
  ppc, pitem, preg,   \* parse workers: position, item held, counter value read
  spc, batch, sreg,   \* storage worker: position, batch, errors value read
  attempts        \* how often each stage tried to add to each counter, and per
                  \* accession number how often each stage event occurred

VARIABLES
  \* ---- AdaptiveRateLimiter (rate_limiter.py); max_requests and lock above ----
  original_max_requests,  \* self.original_max_requests
  min_requests,           \* self.min_requests
  backoff_factor,         \* self.backoff_factor as <<numerator, denominator>>
  consecutive_successes,  \* self.consecutive_successes
  backoff_active,         \* self.backoff_active
  apc,                    \* per thread: "idle", or "succ" inside handle_successful_request
  throttles,              \* number of handle_rate_limit_exceeded calls so far
  since                   \* successes counted since the last throttle report or increase

VARIABLES
  \* ---- one fetch operation for one descriptor ----
  fpath,          \* "bulk" (_download_single_filing), "pipeline" (download_form4_filing)
  fpc,            \* "idle", "attempt" (about to request), "returned"
  attempt,        \* the loop variable attempt of _download_single_filing
  attempt_number, \* the number of _make_request calls retry has made
  sent,           \* retrieval requests issued by this fetch operation
  response,       \* the archive's answer to the last request
  fresult         \* what the fetch operation returned: "success", "error", "none"

rlVars == <<now, max_requests, time_window, requests, lock, rpc, rcur, rwake,
            admissions>>

yrVars == <<hour, downloaded_years, opath, oforce, opc, years_to_process, oidx,
            runNo, intUnit, intSeen, preInt>>

bkVars == <<store, all_filings, bforce, bpc, to_process, chunk_i, batch_results,
            fetched, bstats, batch_stats, sidx, sess, bulkRuns, passStart,
            passSkip0, lastPass, hist, pipeStores, lastPipe>>

\* bkVars without store
bkRest == <<all_filings, bforce, bpc, to_process, chunk_i, batch_results,
            fetched, bstats, batch_stats, sidx, sess, bulkRuns, passStart,
            passSkip0, lastPass, hist, pipeStores, lastPipe>>

piVars == <<filings, batch_size, cpc, cidx, download_queue, parse_queue,
            storage_queue, unfinished, stop_event, stats, dpc, ditem, dreg,
            ppc, pitem, preg, spc, batch, sreg, attempts>>

arVars == <<original_max_requests, min_requests, backoff_factor,
            consecutive_successes, backoff_active, apc, throttles, since>>

VARIABLES
  \* ---- the download workers of one chunk (bulk) or one run (pipeline) ----
  wpath,          \* "none" before construction, then "bulk" or "pipeline"
  requested,      \* the worker count the caller passed to the constructor
  max_workers,    \* self.max_workers, or self.num_download_threads
  waiting,        \* descriptors submitted and not yet taken by a worker
  in_flight       \* fetch operations running

wkVars == <<wpath, requested, max_workers, waiting, in_flight>>

VARIABLES
  \* ---- the throttle check of the chunk loop (bulk_downloader.py) ----
  cd_total,          \* len(filings_to_process)
  cd_i,              \* the loop variable i of the chunk loop (1-based)
  cd_pc,             \* "fetch", "check" (chunk fetched), "store" (check done), "done"
  cd_results,        \* batch_results of the chunk, as a count per kind of result
  batch_rate_limits, \* batch_rate_limits
  rate_limit_errors, \* rate_limit_errors
  cd_warned,         \* the check of the last fetched chunk printed the warning
  cd_slept           \* the check of the last fetched chunk slept

ftVars == <<fpath, fpc, attempt, attempt_number, sent, response, fresult>>

cdVars == <<cd_total, cd_i, cd_pc, cd_results, batch_rate_limits, rate_limit_errors,
            cd_warned, cd_slept>>

vars == <<rlVars, yrVars, bkVars, piVars, arVars, ftVars, wkVars, cdVars>>

(***************************************************************************)
(* RateLimiter                                                             *)
(***************************************************************************)
RLThreads == 1..NumThreads

\* while self.requests and self.requests[0] <= current_time - self.time_window:
\*     self.requests.popleft()
RECURSIVE PurgeOld(_, _, _)
PurgeOld(q, t, w) ==
  IF q # <<>> /\ Head(q) <= t - w THEN PurgeOld(Tail(q), t, w) ELSE q

\* RateLimiter.__init__(max_requests, time_window)
RateLimiterInit(m, w) ==
  /\ now = 0
  /\ max_requests = m
  /\ time_window = w
  /\ requests = <<>>
  /\ lock = 0
  /\ rpc = [t \in RLThreads |-> "idle"]
  /\ rcur = [t \in RLThreads |-> 0]
  /\ rwake = [t \in RLThreads |-> 0]
  /\ admissions = <<>>

\* wait_if_needed, from taking the lock to either returning (no wait needed)
\* or entering time.sleep(wait_time) with the lock still held.
WaitEnter(t) ==
  /\ rpc[t] = "idle"
  /\ lock = 0
  /\ Len(admissions) < MaxAdmissions
  /\ LET current_time == now
         q == PurgeOld(requests, current_time, time_window)
         wait_time == IF q # <<>> THEN Head(q) + time_window - current_time ELSE 0
     IN IF Len(q) >= max_requests /\ wait_time > 0
        THEN /\ requests' = q
             /\ lock' = t
             /\ rpc' = [rpc EXCEPT ![t] = "sleeping"]
             /\ rcur' = [rcur EXCEPT ![t] = current_time]
             /\ rwake' = [rwake EXCEPT ![t] = current_time + wait_time]
             /\ UNCHANGED admissions
        ELSE /\ requests' = Append(q, current_time)
             /\ admissions' = Append(admissions, now)
             /\ UNCHANGED <<lock, rpc, rcur, rwake>>
  /\ UNCHANGED <<now, max_requests, time_window>>
  /\ UNCHANGED <<yrVars, bkVars, piVars, arVars, ftVars, wkVars, cdVars>>

\* wait_if_needed after time.sleep(wait_time): popleft, append(current_time)
\* with the current_time read before the sleep, release the lock, return.
WaitWake(t) ==
  /\ rpc[t] = "sleeping"
  /\ now >= rwake[t]
  /\ requests' = Append(Tail(requests), rcur[t])
  /\ admissions' = Append(admissions, now)
  /\ lock' = 0
  /\ rpc' = [rpc EXCEPT ![t] = "idle"]
  /\ UNCHANGED <<now, max_requests, time_window, rcur, rwake>>
  /\ UNCHANGED <<yrVars, bkVars, piVars, arVars, ftVars, wkVars, cdVars>>

\* the clock advances
Tick ==
  /\ now < MaxTime
  /\ now' = now + 1
  /\ UNCHANGED <<max_requests, time_window, requests, lock, rpc, rcur, rwake,
                 admissions>>
  /\ UNCHANGED <<yrVars, bkVars, piVars, arVars, ftVars, wkVars, cdVars>>

NextRL ==
  \/ \E t \in RLThreads : WaitEnter(t)
  \/ \E t \in RLThreads : WaitWake(t)
  \/ Tick

(***************************************************************************)
(* AdaptiveRateLimiter (rate_limiter.py): throttle and success reports     *)
(***************************************************************************)

\* if self.consecutive_successes >= 10
SuccessThreshold == 10

\* The backoff factors tried: the default 0.5 and two other factors below 1.
BackoffFactors == {<<1, 2>>, <<1, 4>>, <<3, 4>>}

\* A reduction that forgets the floor at min_requests.
ReducedUnfloored(m, f, mn) == (m * f[1]) \div f[2]

\* max(self.min_requests, int(self.max_requests * self.backoff_factor))
Reduced(m, f, mn) == Max2(mn, (m * f[1]) \div f[2])

\* An increase that forgets the cap at original_max_requests.
IncreasedUncapped(m, orig) == m + 1

\* An increase that never happens.
NotIncreased(m, orig) == m

\* min(self.original_max_requests, self.max_requests + 1)
Increased(m, orig) == Min2(orig, m + 1)

\* AdaptiveRateLimiter.__init__ after RateLimiter.__init__(max_requests, time_window)
AdaptiveInit(m, mn, f) ==
  /\ original_max_requests = m
  /\ min_requests = mn
  /\ backoff_factor = f
  /\ consecutive_successes = 0
  /\ backoff_active = FALSE
  /\ apc = [t \in RLThreads |-> "idle"]
  /\ throttles = 0
  /\ since = 0

InitARLRest == AdaptiveInit(MaxCeiling, 1, <<1, 2>>)

\* A limiter constructed with 1 <= min_requests <= max_requests.
InitARL ==
  \E m \in 1..MaxOriginal : \E mn \in 1..m : \E f \in BackoffFactors :
    /\ RateLimiterInit(m, MaxWindow)
    /\ AdaptiveInit(m, mn, f)

\* handle_rate_limit_exceeded: the whole body runs under self.lock.
HandleRateLimitExceeded(t) ==
  /\ apc[t] = "idle"
  /\ lock = 0
  /\ throttles < MaxThrottles
  /\ throttles' = throttles + 1
  /\ max_requests' = Reduced(max_requests, backoff_factor, min_requests)
  /\ consecutive_successes' = 0
  /\ backoff_active' = TRUE
  /\ since' = 0
  /\ UNCHANGED <<original_max_requests, min_requests, backoff_factor, apc>>
  /\ UNCHANGED <<now, time_window, requests, lock, rpc, rcur, rwake, admissions>>
  /\ UNCHANGED <<yrVars, bkVars, piVars, ftVars, wkVars, cdVars>>

\* handle_successful_request up to the lock: it returns at once if
\* backoff_active is false; the flag is read without the lock.
HandleSuccessCheck(t) ==
  /\ apc[t] = "idle"
  /\ apc' = IF backoff_active THEN [apc EXCEPT ![t] = "succ"] ELSE apc
  /\ UNCHANGED <<original_max_requests, min_requests, backoff_factor,
                 consecutive_successes, backoff_active, throttles, since>>
  /\ UNCHANGED <<rlVars, yrVars, bkVars, piVars, ftVars, wkVars, cdVars>>

\* handle_successful_request under self.lock.
HandleSuccessLocked(t) ==
  /\ apc[t] = "succ"
  /\ lock = 0
  /\ apc' = [apc EXCEPT ![t] = "idle"]
  /\ IF consecutive_successes + 1 >= SuccessThreshold
     THEN /\ max_requests' = Increased(max_requests, original_max_requests)
          /\ consecutive_successes' = 0
          /\ since' = 0
          /\ backoff_active' = IF max_requests' >= original_max_requests
                               THEN FALSE ELSE backoff_active
     ELSE /\ consecutive_successes' = consecutive_successes + 1
          /\ since' = since + 1
          /\ UNCHANGED <<max_requests, backoff_active>>
  /\ UNCHANGED <<original_max_requests, min_requests, backoff_factor, throttles>>
  /\ UNCHANGED <<now, time_window, requests, lock, rpc, rcur, rwake, admissions>>
  /\ UNCHANGED <<yrVars, bkVars, piVars, ftVars, wkVars, cdVars>>

NextARL ==
  \/ \E t \in RLThreads : HandleRateLimitExceeded(t)
  \/ \E t \in RLThreads : HandleSuccessCheck(t)
  \/ \E t \in RLThreads : HandleSuccessLocked(t)

\* Every thread goes on reporting successes: a call that can take its next
\* step takes it eventually.
FairARL ==
  \A t \in RLThreads : WF_vars(HandleSuccessCheck(t)) /\ WF_vars(HandleSuccessLocked(t))


(***************************************************************************)
(* Progress tracking: the downloaded_years table and the two orchestrators *)
(***************************************************************************)
Years == 1..NumYears

\* hours_since_start > 24
StaleHours == 24

\* NULL of a timestamp column
Null == -1

\* a year with no row in downloaded_years
NoRow == [status |-> "none", download_started |-> Null,
          download_completed |-> Null, error_message |-> ""]

\* the keyword arguments a caller may pass
NoKw == [k \in {} |-> 0]

\* DatabaseManager.get_year_status / ComprehensiveScraper._get_year_status
get_year_status(tbl, year) == tbl[year].status

\* The counters of a row, and the keyword arguments set_year_status acts on.
Counters == {"total_filings", "processed_quarters", "downloaded_count",
             "stored_count", "error_count", "skipped_count"}

StatusKwargs == Counters \cup {"error_message"}

Timestamps == {"download_started", "download_completed", "last_updated"}

\* A row with every column the two setters write; the progress
\* specifications keep only the columns of NoRow, which are those they read.
NoFullRow ==
  [status |-> "none", download_started |-> Null, download_completed |-> Null,
   error_message |-> "", last_updated |-> Null, total_filings |-> 0,
   processed_quarters |-> 0, downloaded_count |-> 0, stored_count |-> 0,
   error_count |-> 0, skipped_count |-> 0]

\* A setter that writes the status and the timestamps but drops the message.
set_year_status_no_message(tbl, year, status, kw, t) ==
  LET r0 == [tbl[year] EXCEPT !.status = status]
      r2 == IF status = "in_progress" /\ r0.download_started = Null
            THEN [r0 EXCEPT !.download_started = t]
            ELSE IF status = "completed"
                 THEN [r0 EXCEPT !.download_completed = t]
                 ELSE r0
  IN [tbl EXCEPT ![year] = r2]

\* A setter that writes nothing.
set_year_status_not_written(tbl, year, status, kw, t) == tbl

\* A setter that writes a fresh row: what the call does not supply is lost.
set_year_status_fresh(tbl, year, status, kw, t) ==
  LET r0 == [f \in DOMAIN tbl[year] |->
               IF f = "status" THEN status
               ELSE IF f \in StatusKwargs /\ f \in DOMAIN kw THEN kw[f]
               ELSE IF f \in Counters THEN 0
               ELSE IF f = "error_message" THEN ""
               ELSE IF f = "last_updated" THEN t
               ELSE tbl[year][f]]
  IN [tbl EXCEPT ![year] = r0]

\* DatabaseManager.set_year_status(year, status, **kwargs) at time t
set_year_status(tbl, year, status, kw, t) ==
  LET r0 == [tbl[year] EXCEPT !.status = status]
      r1 == [f \in DOMAIN r0 |->
               IF f \in StatusKwargs /\ f \in DOMAIN kw THEN kw[f] ELSE r0[f]]
      r2 == IF status = "in_progress" /\ r1.download_started = Null
            THEN [r1 EXCEPT !.download_started = t]
            ELSE IF status = "completed"
                 THEN [r1 EXCEPT !.download_completed = t]
                 ELSE r1
      r3 == [f \in DOMAIN r2 |-> IF f = "last_updated" THEN t ELSE r2[f]]
  IN [tbl EXCEPT ![year] = r3]

\* ComprehensiveScraper._set_year_status(year, status, **kwargs) at time t
scraper_set_year_status(tbl, year, status, kw, t) ==
  LET r0 == [tbl[year] EXCEPT !.status = status]
  IN [tbl EXCEPT ![year] =
        [f \in DOMAIN r0 |-> IF f \in DOMAIN kw THEN kw[f]
                             ELSE IF f = "last_updated" THEN t
                             ELSE r0[f]]]

\* cmd_conservative_bulk: the years of the range that are queued for processing
RECURSIVE CliSelect(_, _, _)
CliSelect(tbl, force, year) ==
  IF year > NumYears THEN <<>>
  ELSE LET status == tbl[year].status
           rest == CliSelect(tbl, force, year + 1)
       IN IF status = "completed" /\ ~force THEN rest
          ELSE IF status = "in_progress" THEN <<year>> \o rest
          ELSE IF status = "failed" THEN <<year>> \o rest
          ELSE <<year>> \o rest

\* ComprehensiveScraper.get_years_to_process at time t
RECURSIVE get_years_to_process(_, _, _, _)
get_years_to_process(tbl, force, year, t) ==
  IF year > NumYears THEN <<>>
  ELSE LET rec == tbl[year]
           rest == get_years_to_process(tbl, force, year + 1, t)
       IN IF force THEN <<year>> \o rest
          ELSE IF rec.status \in {"none", "pending", "failed"} THEN <<year>> \o rest
          ELSE IF rec.status = "in_progress"
                  /\ rec.download_started # Null
                  /\ t - rec.download_started > StaleHours
               THEN <<year>> \o rest
          ELSE rest

\* cmd_conservative_bulk, except KeyboardInterrupt: every selected year whose
\* row says in_progress is set to failed
RECURSIVE CancelInProgress(_, _, _, _)
CancelInProgress(tbl, ytp, i, t) ==
  IF i > Len(ytp) THEN tbl
  ELSE LET year == ytp[i]
           tbl2 == IF get_year_status(tbl, year) = "in_progress"
                   THEN set_year_status(tbl, year, "failed",
                                        [error_message |-> "Cancelled by user"], t)
                   ELSE tbl
       IN CancelInProgress(tbl2, ytp, i + 1, t)

InitYears ==
  /\ hour = 0
  /\ downloaded_years = [y \in Years |-> NoRow]
  /\ opath = "none"
  /\ oforce = FALSE
  /\ opc = "idle"
  /\ years_to_process = <<>>
  /\ oidx = 0
  /\ runNo = 0
  /\ intUnit = 0
  /\ intSeen = FALSE
  /\ preInt = [y \in Years |-> NoRow]

\* a process starts: main.py conservative-bulk (cli) or comprehensive_scraper
\* main (scraper); it selects the years to process
StartRun(path, force) ==
  /\ opc = "idle"
  /\ runNo < MaxRuns
  /\ runNo' = runNo + 1
  /\ opath' = path
  /\ oforce' = force
  /\ years_to_process' =
       IF path = "cli" THEN CliSelect(downloaded_years, force, 1)
       ELSE get_years_to_process(downloaded_years, force, 1, hour)
  /\ oidx' = 1
  /\ opc' = "loop"
  /\ UNCHANGED <<hour, downloaded_years, intUnit, intSeen, preInt>>
  /\ UNCHANGED <<rlVars, bkVars, piVars, arVars, ftVars, wkVars, cdVars>>

\* the loop takes the next year and marks it in_progress
BeginUnit ==
  /\ opc = "loop"
  /\ oidx <= Len(years_to_process)
  /\ LET year == years_to_process[oidx]
     IN IF opath = "cli"
        THEN /\ downloaded_years' =
                  set_year_status(downloaded_years, year, "in_progress", NoKw, hour)
             /\ opc' = "unit"
             /\ UNCHANGED oidx
        ELSE IF ~oforce /\ get_year_status(downloaded_years, year) = "completed"
             THEN /\ oidx' = oidx + 1
                  /\ UNCHANGED <<downloaded_years, opc>>
             ELSE /\ downloaded_years' =
                       scraper_set_year_status(downloaded_years, year, "in_progress",
                         [download_started |-> hour, download_completed |-> Null], hour)
                  /\ opc' = "unit"
                  /\ UNCHANGED oidx
  /\ UNCHANGED <<hour, opath, oforce, years_to_process, runNo, intUnit, intSeen, preInt>>
  /\ UNCHANGED <<rlVars, bkVars, piVars, arVars, ftVars, wkVars, cdVars>>

\* the unit's processing ends without an interrupt: "ok" (filings found and
\* handled), "empty" (no filings found) or "exception"
EndUnit(outcome) ==
  /\ opc = "unit"
  /\ LET year == years_to_process[oidx]
     IN downloaded_years' =
          IF opath = "cli"
          THEN IF outcome = "exception"
               THEN set_year_status(downloaded_years, year, "failed",
                                    [error_message |-> "exception"], hour)
               ELSE set_year_status(downloaded_years, year, "completed", NoKw, hour)
          ELSE IF outcome = "ok"
               THEN scraper_set_year_status(downloaded_years, year, "completed",
                                            [download_completed |-> hour], hour)
               ELSE IF outcome = "empty"
               THEN scraper_set_year_status(downloaded_years, year, "failed",
                                            [error_message |-> "Download failed"], hour)
               ELSE scraper_set_year_status(downloaded_years, year, "failed",
                                            [error_message |-> "exception"], hour)
  /\ oidx' = oidx + 1
  /\ opc' = "loop"
  /\ UNCHANGED <<hour, opath, oforce, years_to_process, runNo, intUnit, intSeen, preInt>>
  /\ UNCHANGED <<rlVars, bkVars, piVars, arVars, ftVars, wkVars, cdVars>>

\* the loop is over: the process exits normally
EndRun ==
  /\ opc = "loop"
  /\ oidx > Len(years_to_process)
  /\ opc' = "idle"
  /\ opath' = "none"
  /\ oforce' = FALSE
  /\ years_to_process' = <<>>
  /\ oidx' = 0
  /\ intUnit' = 0
  /\ intSeen' = FALSE
  /\ preInt' = [y \in Years |-> NoRow]
  /\ UNCHANGED <<hour, downloaded_years, runNo>>
  /\ UNCHANGED <<rlVars, bkVars, piVars, arVars, ftVars, wkVars, cdVars>>

\* KeyboardInterrupt while a unit is being processed, or between two units.
\* cli: the handler of cmd_conservative_bulk runs, then the process exits.
\* scraper: download_year has no handler for it (except Exception does not
\* catch KeyboardInterrupt); main() logs and the process exits.
Interrupt ==
  /\ opc \in {"loop", "unit"}
  /\ intSeen' = TRUE
  /\ intUnit' = IF opc = "unit" THEN years_to_process[oidx] ELSE 0
  /\ preInt' = downloaded_years
  /\ downloaded_years' =
       IF opath = "cli"
       THEN CancelInProgress(downloaded_years, years_to_process, 1, hour)
       ELSE downloaded_years
  /\ opc' = "idle"
  /\ opath' = "none"
  /\ oforce' = FALSE
  /\ years_to_process' = <<>>
  /\ oidx' = 0
  /\ UNCHANGED <<hour, runNo>>
  /\ UNCHANGED <<rlVars, bkVars, piVars, arVars, ftVars, wkVars, cdVars>>

\* time passes
HourTick ==
  /\ hour + HourStep <= MaxHour
  /\ hour' = hour + HourStep
  /\ UNCHANGED <<downloaded_years, opath, oforce, opc, years_to_process, oidx,
                 runNo, intUnit, intSeen, preInt>>
  /\ UNCHANGED <<rlVars, bkVars, piVars, arVars, ftVars, wkVars, cdVars>>

NextYears ==
  \/ \E path \in {"cli", "scraper"}, force \in BOOLEAN : StartRun(path, force)
  \/ BeginUnit
  \/ \E outcome \in {"ok", "empty", "exception"} : EndUnit(outcome)
  \/ EndRun
  \/ Interrupt
  \/ HourTick

\* The calls of set_year_status in cmd_conservative_bulk, with the counters
\* all set to v: the status passed and the keyword arguments supplied.
CliCalls(v) ==
  { [status |-> "in_progress", kw |-> NoKw],
    [status |-> "in_progress", kw |-> [total_filings |-> v, processed_quarters |-> v]],
    [status |-> "completed", kw |-> [total_filings |-> 0, processed_quarters |-> v]],
    [status |-> "completed", kw |-> [downloaded_count |-> v, stored_count |-> v,
                                     error_count |-> v, skipped_count |-> v]],
    [status |-> "failed", kw |-> [error_message |-> "exception"]],
    [status |-> "failed", kw |-> [error_message |-> "Cancelled by user"]] }

\* The calls of _set_year_status in ComprehensiveScraper.download_year at time t.
ScraperCalls(t) ==
  { [status |-> "in_progress", kw |-> [download_started |-> t, download_completed |-> Null]],
    [status |-> "completed", kw |-> [download_completed |-> t]],
    [status |-> "failed", kw |-> [error_message |-> "Download failed"]],
    [status |-> "failed", kw |-> [error_message |-> "exception"]] }

\* An empty downloaded_years table with every column.
InitMark ==
  /\ hour = 0
  /\ downloaded_years = [y \in Years |-> NoFullRow]
  /\ opath = "none"
  /\ oforce = FALSE
  /\ opc = "idle"
  /\ years_to_process = <<>>
  /\ oidx = 0
  /\ runNo = 0
  /\ intUnit = 0
  /\ intSeen = FALSE
  /\ preInt = [y \in Years |-> NoRow]

\* db_manager.set_year_status(year, status, **kw)
MarkCli(year, status, kw) ==
  /\ downloaded_years' = set_year_status(downloaded_years, year, status, kw, hour)
  /\ UNCHANGED <<hour, opath, oforce, opc, years_to_process, oidx, runNo, intUnit,
                 intSeen, preInt>>
  /\ UNCHANGED <<rlVars, bkVars, piVars, arVars, ftVars, wkVars, cdVars>>

\* self._set_year_status(year, status, **kw)
MarkScraper(year, status, kw) ==
  /\ downloaded_years' = scraper_set_year_status(downloaded_years, year, status, kw, hour)
  /\ UNCHANGED <<hour, opath, oforce, opc, years_to_process, oidx, runNo, intUnit,
                 intSeen, preInt>>
  /\ UNCHANGED <<rlVars, bkVars, piVars, arVars, ftVars, wkVars, cdVars>>

NextMark ==
  \/ \E year \in Years, v \in 1..MaxCount : \E c \in CliCalls(v) :
       MarkCli(year, c.status, c.kw)
  \/ \E year \in Years : \E c \in ScraperCalls(hour) : MarkScraper(year, c.status, c.kw)

\* ------------------------------------------------------------------------
\* The filing store: table form4_filings seen through SQLAlchemy sessions
\* ------------------------------------------------------------------------

Accs == 1..NumAccs

\* A content the database refuses when the row is written (PostgreSQL text
\* cannot hold a NUL character); every other content is accepted.
BadXml == 0

Xmls == 0..NumXml

Row(a, x) == [acc |-> a, xml |-> x]

AccsOf(rows) == {rows[i].acc : i \in 1..Len(rows)}

CountAcc(rows, a) == Cardinality({i \in 1..Len(rows) : rows[i].acc = a})

\* A table without the unique index: no insert is refused.
NoUniqueIndex(rows, a) == FALSE

\* accession_number = Column(String(20), unique=True, nullable=False)
UniqueViolation(rows, a) == a \in AccsOf(rows)

\* A session holds the rows it has inserted and the updates it has issued in
\* its open transaction (ins, upd) and the change not yet flushed (pend).
EmptySession == [ins |-> <<>>, upd |-> <<>>, pend |-> <<>>]

\* The flush of the pending change: sessionmaker(bind=engine) leaves
\* autoflush on, so every query and the commit flush first.
Flush(db, s) ==
  IF s.pend = <<>> THEN [err |-> "ok", sess |-> s]
  ELSE LET op == s.pend[1] IN
    IF op.xml = BadXml THEN [err |-> "error", sess |-> s]
    ELSE IF op.kind = "ins" /\ UniqueViolation(db \o s.ins, op.acc)
      THEN [err |-> "integrity", sess |-> s]
    ELSE IF op.kind = "ins"
      THEN [err |-> "ok",
            sess |-> [s EXCEPT !.ins = Append(@, Row(op.acc, op.xml)),
                               !.pend = <<>>]]
    ELSE [err |-> "ok",
          sess |-> [s EXCEPT !.upd = Append(@, Row(op.acc, op.xml)),
                             !.pend = <<>>]]

\* session.query(Form4Filing).filter(accession_number == a).first() after the
\* flush: the committed rows and the session's own inserts are visible.
Existing(db, s, a) == a \in AccsOf(db) \cup AccsOf(s.ins)

LastUpd(upd, a, default) ==
  LET idx == {i \in 1..Len(upd) : upd[i].acc = a} IN
  IF idx = {} THEN default
  ELSE upd[CHOOSE i \in idx : \A k \in idx : k <= i].xml

\* What a successful commit leaves in the table.
Committed(db, s) ==
  LET rows == db \o s.ins IN
  [i \in 1..Len(rows) |-> Row(rows[i].acc, LastUpd(s.upd, rows[i].acc, rows[i].xml))]

\* ------------------------------------------------------------------------
\* SECBulkDownloader (bulk_downloader.py): download_and_store_filings
\* ------------------------------------------------------------------------

PrefilterBatchSize == 1000

DownloadBatchSize == 50

ZeroStats == [downloaded |-> 0, stored |-> 0, errors |-> 0, skipped |-> 0]

ZeroBatchStats == [stored |-> 0, errors |-> 0]

NoPass == [valid |-> FALSE, force |-> FALSE, results |-> <<>>, before |-> <<>>,
           stats |-> ZeroBatchStats, skipped |-> 0]

NoPipe == [valid |-> FALSE, acc |-> 0, stored |-> 0, errors |-> 0]

\* The outcomes of _download_single_filing: status 'error' after the retries
\* are exhausted, or status 'success' with the content that was fetched.
FetchOutcomes ==
  {[status |-> "error", xml |-> 0]} \cup {[status |-> "success", xml |-> x] : x \in Xmls}

\* A pre-filter that finds nothing present.
PreFilterNone(rows, descriptors) == descriptors

\* The existence pre-filter of a non-forced run, one chunk of batch_size
\* descriptors per query; returns filings_to_process.
RECURSIVE PreFilter(_, _)
PreFilter(rows, descriptors) ==
  IF descriptors = <<>> THEN <<>>
  ELSE LET n == IF Len(descriptors) < PrefilterBatchSize THEN Len(descriptors)
                ELSE PrefilterBatchSize
           chunk == SubSeq(descriptors, 1, n)
           existing_numbers == {a \in Range(chunk) : a \in AccsOf(rows)}
       IN SelectSeq(chunk, LAMBDA a : a \notin existing_numbers)
          \o PreFilter(rows, SubSeq(descriptors, n + 1, Len(descriptors)))

\* The positions of filings_to_process that make up the current chunk.
ChunkIdx ==
  {k \in 1..Len(to_process) : chunk_i <= k /\ k < chunk_i + DownloadBatchSize}

\* One iteration of the loop of _batch_store_filings over filing_results.
batch_store_item(db, s, st, result, force) ==
  IF result.status # "success"
  THEN [sess |-> s, stats |-> [st EXCEPT !.errors = @ + 1]]
  ELSE LET f == Flush(db, s) IN
    IF f.err = "integrity"
    THEN \* except IntegrityError: session.rollback(); "duplicate key" is not counted
         [sess |-> EmptySession, stats |-> st]
    ELSE IF f.err = "error"
    THEN \* except Exception: session.rollback(); errors += 1
         [sess |-> EmptySession, stats |-> [st EXCEPT !.errors = @ + 1]]
    ELSE IF Existing(db, f.sess, result.acc)
    THEN IF force
         THEN [sess |-> [f.sess EXCEPT !.pend =
                           <<[kind |-> "upd", acc |-> result.acc, xml |-> result.xml]>>],
               stats |-> [st EXCEPT !.stored = @ + 1]]
         ELSE [sess |-> f.sess, stats |-> st]
    ELSE [sess |-> [f.sess EXCEPT !.pend =
                      <<[kind |-> "ins", acc |-> result.acc, xml |-> result.xml]>>],
          stats |-> [st EXCEPT !.stored = @ + 1]]

\* session.commit() at the end of _batch_store_filings and the handler of the
\* outer try: the rows and the batch_stats the call returns.
batch_store_commit(db, s, st, n) ==
  LET f == Flush(db, s) IN
  IF f.err = "ok"
  THEN [rows |-> Committed(db, f.sess), stats |-> st]
  ELSE [rows |-> db, stats |-> [stored |-> 0, errors |-> st.errors + n]]

RunRecord(force, tp, after, st) ==
  [force |-> force, to_process |-> tp, after |-> after, stats |-> st]

PushRun(h, r) == IF Len(h) < 2 THEN Append(h, r) ELSE <<h[2], r>>

InitBulkAt(rows, descriptors, runs) ==
  /\ store = rows
  /\ all_filings = descriptors
  /\ bforce = FALSE
  /\ bpc = "idle"
  /\ to_process = <<>>
  /\ chunk_i = 1
  /\ batch_results = <<>>
  /\ fetched = {}
  /\ bstats = ZeroStats
  /\ batch_stats = ZeroBatchStats
  /\ sidx = 1
  /\ sess = EmptySession
  /\ bulkRuns = runs
  /\ passStart = <<>>
  /\ passSkip0 = 0
  /\ lastPass = NoPass
  /\ hist = <<>>
  /\ pipeStores = 0
  /\ lastPipe = NoPipe

InitBulkWith(descriptors) == InitBulkAt(<<>>, descriptors, 0)

\* Any descriptor list of up to MaxFilings entries; the form index lists a
\* filing once per filer, so an accession number may occur more than once.
InitBulk ==
  \E k \in 1..MaxFilings : \E descriptors \in [1..k -> Accs] : InitBulkWith(descriptors)

InitBulkRest == InitBulkWith(<<>>)

\* The rows earlier runs have committed for a set of accession numbers.
RECURSIVE RowsOf(_)
RowsOf(S) ==
  IF S = {} THEN <<>>
  ELSE LET a == CHOOSE x \in S : \A y \in S : x <= y
       IN <<Row(a, 1)>> \o RowsOf(S \ {a})

\* One run of download_and_store_filings on a list of up to NumPrefilterAccs
\* descriptors, started on a table that already holds any part of them.
InitPrefilter ==
  \E S \in SUBSET (1..NumPrefilterAccs) :
    \E k \in 1..NumPrefilterAccs : \E descriptors \in [1..k -> 1..NumPrefilterAccs] :
      InitBulkAt(RowsOf(S), descriptors, MaxBulkRuns - 1)

\* download_and_store_filings up to the first chunk: the pre-filter and the
\* early return when nothing is left to download; an empty list under force
\* runs the chunk loop zero times and returns as well.
BulkStart(force) ==
  /\ bpc = "idle"
  /\ bulkRuns < MaxBulkRuns
  /\ bulkRuns' = bulkRuns + 1
  /\ bforce' = force
  /\ LET tp == IF force THEN all_filings ELSE PreFilter(store, all_filings)
         st == [ZeroStats EXCEPT !.skipped = Len(all_filings) - Len(tp)]
     IN /\ bstats' = st
        /\ IF tp = <<>>
           THEN /\ bpc' = "idle"
                /\ to_process' = <<>>
                /\ hist' = PushRun(hist, RunRecord(force, tp, store, st))
           ELSE /\ bpc' = "fetch"
                /\ to_process' = tp
                /\ hist' = hist
  /\ chunk_i' = 1
  /\ batch_results' = <<>>
  /\ fetched' = {}
  /\ UNCHANGED <<store, all_filings, batch_stats, sidx, sess, passStart,
                 passSkip0, lastPass, pipeStores, lastPipe>>
  /\ UNCHANGED <<rlVars, yrVars, piVars, arVars, ftVars, wkVars, cdVars>>

\* One future of the chunk completes (as_completed); after the last one the
\* chunk is handed to _batch_store_filings.
BulkFetch(k, r) ==
  /\ bpc = "fetch"
  /\ k \in ChunkIdx \ fetched
  /\ batch_results' = Append(batch_results,
                             [status |-> r.status, acc |-> to_process[k], xml |-> r.xml])
  /\ bstats' = IF r.status = "success"
               THEN [bstats EXCEPT !.downloaded = @ + 1]
               ELSE [bstats EXCEPT !.errors = @ + 1]
  /\ fetched' = fetched \cup {k}
  /\ IF fetched' = ChunkIdx
     THEN /\ bpc' = "store"
          /\ batch_stats' = ZeroBatchStats
          /\ sidx' = 1
          /\ sess' = EmptySession
          /\ passStart' = store
          /\ passSkip0' = bstats.skipped
     ELSE UNCHANGED <<bpc, batch_stats, sidx, sess, passStart, passSkip0>>
  /\ UNCHANGED <<store, all_filings, bforce, to_process, chunk_i, bulkRuns,
                 lastPass, hist, pipeStores, lastPipe>>
  /\ UNCHANGED <<rlVars, yrVars, piVars, arVars, ftVars, wkVars, cdVars>>

\* _batch_store_filings handles the next result of the chunk.
BulkStoreItem ==
  /\ bpc = "store"
  /\ sidx <= Len(batch_results)
  /\ LET r == batch_store_item(store, sess, batch_stats, batch_results[sidx], bforce)
     IN /\ sess' = r.sess
        /\ batch_stats' = r.stats
  /\ sidx' = sidx + 1
  /\ UNCHANGED <<store, all_filings, bforce, bpc, to_process, chunk_i,
                 batch_results, fetched, bstats, bulkRuns, passStart, passSkip0,
                 lastPass, hist, pipeStores, lastPipe>>
  /\ UNCHANGED <<rlVars, yrVars, piVars, arVars, ftVars, wkVars, cdVars>>

\* _batch_store_filings commits and returns; the run adds the batch counters
\* to its own and goes to the next chunk or returns.
BulkCommit ==
  /\ bpc = "store"
  /\ sidx > Len(batch_results)
  /\ LET c == batch_store_commit(store, sess, batch_stats, Len(batch_results))
         st == [bstats EXCEPT !.stored = @ + c.stats.stored,
                              !.errors = @ + c.stats.errors]
     IN /\ store' = c.rows
        /\ bstats' = st
        /\ lastPass' = [valid |-> TRUE, force |-> bforce, results |-> batch_results,
                        before |-> passStart, stats |-> c.stats,
                        skipped |-> st.skipped - passSkip0]
        /\ IF chunk_i + DownloadBatchSize > Len(to_process)
           THEN /\ bpc' = "idle"
                /\ hist' = PushRun(hist, RunRecord(bforce, to_process, c.rows, st))
                /\ to_process' = <<>>
                /\ chunk_i' = 1
           ELSE /\ bpc' = "fetch"
                /\ hist' = hist
                /\ to_process' = to_process
                /\ chunk_i' = chunk_i + DownloadBatchSize
  /\ batch_results' = <<>>
  /\ fetched' = {}
  /\ batch_stats' = ZeroBatchStats
  /\ sidx' = 1
  /\ sess' = EmptySession
  /\ passStart' = <<>>
  /\ passSkip0' = 0
  /\ UNCHANGED <<all_filings, bforce, bulkRuns, pipeStores, lastPipe>>
  /\ UNCHANGED <<rlVars, yrVars, piVars, arVars, ftVars, wkVars, cdVars>>

NextBulk ==
  \/ \E force \in BOOLEAN : BulkStart(force)
  \/ \E k \in 1..Len(to_process), r \in FetchOutcomes : BulkFetch(k, r)
  \/ BulkStoreItem
  \/ BulkCommit

\* ------------------------------------------------------------------------
\* The pipeline's store stage (bulk_processor.py) writing to the same table
\* ------------------------------------------------------------------------

\* _process_storage_batch for one item of its batch, in a transaction of its
\* own: the rows afterwards and what is added to stats.stored and stats.errors.
process_storage_item(db, a, x) ==
  IF a \in AccsOf(db) THEN [rows |-> db, stored |-> 0, errors |-> 0]
  ELSE IF x = BadXml THEN [rows |-> db, stored |-> 0, errors |-> 1]
  ELSE IF UniqueViolation(db, a) THEN [rows |-> db, stored |-> 0, errors |-> 0]
  ELSE [rows |-> Append(db, Row(a, x)), stored |-> 1, errors |-> 0]

\* The storage worker of a pipeline run stores one parsed filing while the
\* bulk path may be in the middle of a batch.  An insert of an accession
\* number that the bulk transaction has inserted and not yet committed waits
\* for that transaction.
PipelineStore(a, x) ==
  /\ pipeStores < MaxPipeStores
  /\ a \in AccsOf(store) \/ a \notin AccsOf(sess.ins)
  /\ LET r == process_storage_item(store, a, x)
     IN /\ store' = r.rows
        /\ lastPipe' = [valid |-> TRUE, acc |-> a, stored |-> r.stored,
                        errors |-> r.errors]
  /\ pipeStores' = pipeStores + 1
  /\ UNCHANGED <<all_filings, bforce, bpc, to_process, chunk_i, batch_results,
                 fetched, bstats, batch_stats, sidx, sess, bulkRuns, passStart,
                 passSkip0, lastPass, hist>>
  /\ UNCHANGED <<rlVars, yrVars, piVars, arVars, ftVars, wkVars, cdVars>>

NextStore ==
  \/ NextBulk
  \/ \E a \in Accs, x \in Xmls : PipelineStore(a, x)


\* ------------------------------------------------------------------------
\* The download workers: ThreadPoolExecutor(max_workers=self.max_workers) of
\* SECBulkDownloader and the download threads of BulkProcessor._start_workers
\* ------------------------------------------------------------------------

HardCap == 8

\* SECBulkDownloader.__init__: if max_workers > 8: max_workers = 8
Capped(n) == IF n > HardCap THEN HardCap ELSE n

InitWorkers ==
  /\ wpath = "none"
  /\ requested = 0
  /\ max_workers = 0
  /\ waiting = 0
  /\ in_flight = 0

\* SECBulkDownloader(max_workers=n), then one chunk of k descriptors is
\* submitted to the executor of download_and_store_filings.
BulkConstruct(n, k) ==
  /\ wpath = "none"
  /\ wpath' = "bulk"
  /\ requested' = n
  /\ max_workers' = Capped(n)
  /\ waiting' = k
  /\ in_flight' = 0
  /\ UNCHANGED <<rlVars, yrVars, bkVars, piVars, arVars, ftVars, cdVars>>

\* BulkProcessor(num_download_threads=n): _start_workers starts
\* range(self.num_download_threads) threads; k descriptors are queued.
PipelineConstruct(n, k) ==
  /\ wpath = "none"
  /\ wpath' = "pipeline"
  /\ requested' = n
  /\ max_workers' = n
  /\ waiting' = k
  /\ in_flight' = 0
  /\ UNCHANGED <<rlVars, yrVars, bkVars, piVars, arVars, ftVars, cdVars>>

\* A free pool thread takes a submitted call of _download_single_filing, or a
\* download thread takes a descriptor from the queue and fetches it.
WorkerTake ==
  /\ wpath # "none"
  /\ waiting > 0
  /\ in_flight < max_workers
  /\ waiting' = waiting - 1
  /\ in_flight' = in_flight + 1
  /\ UNCHANGED <<wpath, requested, max_workers>>
  /\ UNCHANGED <<rlVars, yrVars, bkVars, piVars, arVars, ftVars, cdVars>>

\* A fetch operation returns.
WorkerDone ==
  /\ in_flight > 0
  /\ in_flight' = in_flight - 1
  /\ UNCHANGED <<wpath, requested, max_workers, waiting>>
  /\ UNCHANGED <<rlVars, yrVars, bkVars, piVars, arVars, ftVars, cdVars>>

NextWorkers ==
  \/ \E n \in 1..MaxRequested, k \in 1..MaxSubmitted : BulkConstruct(n, k)
  \/ \E n \in 1..MaxRequested, k \in 1..MaxSubmitted : PipelineConstruct(n, k)
  \/ WorkerTake
  \/ WorkerDone

\* ------------------------------------------------------------------------
\* The throttle check after each chunk of download_and_store_filings
\* (bulk_downloader.py), on the results of _download_single_filing by kind
\* ------------------------------------------------------------------------

\* The results of _download_single_filing as the check tells them apart:
\* success, an error whose text holds "Rate limited", any other error.
ResultKinds == {"success", "rate_limited", "other_error"}

NoResults == [k \in ResultKinds |-> 0]

\* A counter that is carried over from chunk to chunk.
carried_over(n) == n

\* batch_rate_limits = 0 at the head of each chunk
fresh_batch_rate_limits(n) == 0

\* len(batch) for batch = filings_to_process[i:i + download_batch_size]
CdBatchLen ==
  IF cd_total - cd_i + 1 < DownloadBatchSize THEN cd_total - cd_i + 1
  ELSE DownloadBatchSize

\* count > length * 0.5 and count > length * 0.8; for lengths up to
\* download_batch_size the floating-point products compare as the exact ones.
MoreThanHalf(count, length) == 2 * count > length

MoreThanFourFifths(count, length) == 10 * count > 8 * length

CooldownInit(n) ==
  /\ cd_total = n
  /\ cd_i = 1
  /\ cd_pc = IF n = 0 THEN "done" ELSE "fetch"
  /\ cd_results = NoResults
  /\ batch_rate_limits = 0
  /\ rate_limit_errors = 0
  /\ cd_warned = FALSE
  /\ cd_slept = FALSE

InitCooldownRest == CooldownInit(0)

\* A work list of any length up to one full chunk and MaxExtraFilings more.
InitCooldown == \E n \in 1..(DownloadBatchSize + MaxExtraFilings) : CooldownInit(n)

\* One future of the chunk completes with a result of the given kind.
CdFuture(kind) ==
  /\ cd_pc = "fetch"
  /\ cd_results' = [cd_results EXCEPT ![kind] = @ + 1]
  /\ IF kind = "rate_limited"
     THEN /\ batch_rate_limits' = batch_rate_limits + 1
          /\ rate_limit_errors' = rate_limit_errors + 1
     ELSE UNCHANGED <<batch_rate_limits, rate_limit_errors>>
  /\ cd_pc' = IF cd_results'["success"] + cd_results'["rate_limited"]
                   + cd_results'["other_error"] = CdBatchLen
              THEN "check" ELSE "fetch"
  /\ UNCHANGED <<cd_total, cd_i, cd_warned, cd_slept>>
  /\ UNCHANGED <<rlVars, yrVars, bkVars, piVars, arVars, ftVars, wkVars>>

\* The check after the executor block: the warning, and inside it the sleep.
CdCheck ==
  /\ cd_pc = "check"
  /\ cd_warned' = MoreThanHalf(batch_rate_limits, CdBatchLen)
  /\ cd_slept' = (MoreThanHalf(batch_rate_limits, CdBatchLen)
                  /\ MoreThanFourFifths(batch_rate_limits, CdBatchLen))
  /\ cd_pc' = "store"
  /\ UNCHANGED <<cd_total, cd_i, cd_results, batch_rate_limits, rate_limit_errors>>
  /\ UNCHANGED <<rlVars, yrVars, bkVars, piVars, arVars, ftVars, wkVars>>

\* The chunk is stored and the loop goes to the next chunk, or ends.
CdNextChunk ==
  /\ cd_pc = "store"
  /\ IF cd_i + DownloadBatchSize > cd_total
     THEN /\ cd_pc' = "done"
          /\ UNCHANGED <<cd_i, cd_results, batch_rate_limits>>
     ELSE /\ cd_pc' = "fetch"
          /\ cd_i' = cd_i + DownloadBatchSize
          /\ cd_results' = NoResults
          /\ batch_rate_limits' = fresh_batch_rate_limits(batch_rate_limits)
  /\ UNCHANGED <<cd_total, rate_limit_errors, cd_warned, cd_slept>>
  /\ UNCHANGED <<rlVars, yrVars, bkVars, piVars, arVars, ftVars, wkVars>>

NextCooldown ==
  \/ \E kind \in ResultKinds : CdFuture(kind)
  \/ CdCheck
  \/ CdNextChunk

\* ------------------------------------------------------------------------
\* The fetch of one filing: SECBulkDownloader._download_single_filing
\* (bulk_downloader.py) and EDGARDownloader.download_form4_filing through
\* _make_request (edgar_downloader.py)
\* ------------------------------------------------------------------------

max_retries == 3

StopAfterAttempt == 3

\* What the archive can answer: status 200 with a payload of at least 100
\* characters ("ok"), of 1 to 99 characters ("short") or of none ("empty"),
\* status 429 ("throttled"), another status of 400 or more ("status"), or
\* no answer at all, the request raising a requests exception ("transport").
Responses == {"ok", "short", "empty", "throttled", "status", "transport"}

\* A retry policy that never gives up.
never_stop(n) == FALSE

\* stop=stop_after_attempt(3): retry gives up once that many calls were made.
stop_after_attempt(n) == n >= StopAfterAttempt

InitFetch ==
  /\ fpath = "none"
  /\ fpc = "idle"
  /\ attempt = 0
  /\ attempt_number = 0
  /\ sent = 0
  /\ response = "none"
  /\ fresult = "none"

\* The fetch operation is called for a descriptor.
FetchStart(path) ==
  /\ fpc = "idle"
  /\ fpath' = path
  /\ fpc' = "attempt"
  /\ attempt' = 0
  /\ attempt_number' = 1
  /\ UNCHANGED <<sent, response, fresult>>
  /\ UNCHANGED <<rlVars, yrVars, bkVars, piVars, arVars, wkVars, cdVars>>

\* One iteration of the for loop of _download_single_filing: session.get and
\* the branch on the answer; a requests exception leaves through the outer
\* handler; a loop that ran out would return None.
download_single_filing(resp) ==
  /\ fpath = "bulk"
  /\ fpc = "attempt"
  /\ sent' = sent + 1
  /\ response' = resp
  /\ IF resp = "ok"
     THEN /\ fpc' = "returned" /\ fresult' = "success" /\ UNCHANGED attempt
     ELSE IF resp = "throttled" /\ attempt < max_retries - 1
     THEN /\ attempt' = attempt + 1
          /\ IF attempt + 1 < max_retries
             THEN /\ fpc' = "attempt" /\ UNCHANGED fresult
             ELSE /\ fpc' = "returned" /\ fresult' = "none"
     ELSE /\ fpc' = "returned" /\ fresult' = "error" /\ UNCHANGED attempt
  /\ UNCHANGED <<fpath, attempt_number>>
  /\ UNCHANGED <<rlVars, yrVars, bkVars, piVars, arVars, wkVars, cdVars>>

\* self.rate_limiter.wait_if_needed() at the head of _make_request.
MakeRequestWait ==
  /\ fpath = "pipeline"
  /\ fpc = "attempt"
  /\ Len(admissions) = sent
  /\ WaitEnter(1) \/ WaitWake(1)

\* _make_request once admitted: session.get, raise_for_status, the report to
\* the limiter; an exception goes to retry, which calls again or gives up,
\* and download_form4_filing turns what is raised into None.
make_request(resp) ==
  /\ fpath = "pipeline"
  /\ fpc = "attempt"
  /\ Len(admissions) = sent + 1
  /\ rpc[1] = "idle"
  /\ sent' = sent + 1
  /\ response' = resp
  /\ IF resp \in {"ok", "short", "empty"}
     THEN \* handle_successful_request, then the content is returned; the
          \* download worker takes an empty content for a failure
          /\ fpc' = "returned"
          /\ fresult' = IF resp = "empty" THEN "error" ELSE "success"
          /\ UNCHANGED <<attempt_number, throttles>>
          /\ IF ~backoff_active
             THEN UNCHANGED <<max_requests, consecutive_successes, backoff_active, since>>
             ELSE IF consecutive_successes + 1 >= SuccessThreshold
             THEN /\ max_requests' = Increased(max_requests, original_max_requests)
                  /\ consecutive_successes' = 0
                  /\ since' = 0
                  /\ backoff_active' = IF max_requests' >= original_max_requests
                                       THEN FALSE ELSE backoff_active
             ELSE /\ consecutive_successes' = consecutive_successes + 1
                  /\ since' = since + 1
                  /\ UNCHANGED <<max_requests, backoff_active>>
     ELSE \* HTTPError or another RequestException is raised
          /\ IF resp = "throttled"
             THEN \* handle_rate_limit_exceeded
                  /\ max_requests' = Reduced(max_requests, backoff_factor, min_requests)
                  /\ consecutive_successes' = 0
                  /\ backoff_active' = TRUE
                  /\ throttles' = throttles + 1
                  /\ since' = 0
             ELSE UNCHANGED <<max_requests, consecutive_successes, backoff_active,
                              throttles, since>>
          /\ IF stop_after_attempt(attempt_number)
             THEN /\ fpc' = "returned" /\ fresult' = "error" /\ UNCHANGED attempt_number
             ELSE /\ fpc' = "attempt" /\ attempt_number' = attempt_number + 1
                  /\ UNCHANGED fresult
  /\ UNCHANGED <<fpath, attempt>>
  /\ UNCHANGED <<original_max_requests, min_requests, backoff_factor, apc>>
  /\ UNCHANGED <<now, time_window, requests, lock, rpc, rcur, rwake, admissions>>
  /\ UNCHANGED <<yrVars, bkVars, piVars, wkVars, cdVars>>

NextFetch ==
  \/ \E path \in {"bulk", "pipeline"} : FetchStart(path)
  \/ \E resp \in Responses : download_single_filing(resp)
  \/ MakeRequestWait
  \/ \E resp \in Responses : make_request(resp)
  \/ Tick

\* ------------------------------------------------------------------------
\* BulkProcessor (bulk_processor.py): process_date_range and its workers
\* ------------------------------------------------------------------------

DlWorkers == 1..NumDownloadThreads

PaWorkers == 1..NumParseThreads

NoItem == [acc |-> 0, xml |-> 0]

\* What a downloaded filing can hold: a content the database refuses or one
\* it accepts (the pipeline never overwrites, so one accepted content is enough).
PipeXmls == {BadXml, 1}

ZeroProcessingStats ==
  [total_filings |-> 0, downloaded |-> 0, parsed |-> 0, stored |-> 0, errors |-> 0]

ZeroUnfinished == [download |-> 0, parse |-> 0, storage |-> 0]

ZeroAttempts ==
  [dl_ok |-> 0, dl_err |-> 0, parse_ok |-> 0, parse_err |-> 0,
   fetched |-> [a \in Accs |-> 0], parse_started |-> [a \in Accs |-> 0],
   parsed |-> [a \in Accs |-> 0], store_handled |-> [a \in Accs |-> 0]]

\* A test that takes every fetch result for a content.
always_content(ok) == TRUE

\* if xml_content: in _download_worker
has_content(ok) == ok

\* Queue(): the maxsize of the three queues; 0 is the default and means that
\* the queue has no capacity and that put never blocks.
QueueMaxsize == 0

\* A get that leaves the item it returns on the queue.
get_rest_kept(q) == q

\* Queue.get: what is left on the queue once its first item has been returned.
get_rest(q) == Tail(q)

\* A put that does not count the item as unfinished.
put_uncounted(n) == n

\* Queue.put: the queue is unbounded, the item counts as unfinished.
put(n) == n + 1

\* A task_done that does not count the item as finished.
task_done_lost(n) == n

\* Queue.task_done
task_done(n) == n - 1

BulkProcessorInit(fs, bs) ==
  /\ filings = fs
  /\ batch_size = bs
  /\ cpc = "init"
  /\ cidx = 1
  /\ download_queue = <<>>
  /\ parse_queue = <<>>
  /\ storage_queue = <<>>
  /\ unfinished = ZeroUnfinished
  /\ stop_event = FALSE
  /\ stats = ZeroProcessingStats
  /\ dpc = [w \in DlWorkers |-> "unstarted"]
  /\ ditem = [w \in DlWorkers |-> 0]
  /\ dreg = [w \in DlWorkers |-> [field |-> "downloaded", val |-> 0]]
  /\ ppc = [w \in PaWorkers |-> "unstarted"]
  /\ pitem = [w \in PaWorkers |-> NoItem]
  /\ preg = [w \in PaWorkers |-> [field |-> "parsed", val |-> 0]]
  /\ spc = "unstarted"
  /\ batch = <<>>
  /\ sreg = 0
  /\ attempts = ZeroAttempts

\* A freshly constructed processor and any descriptor list of up to
\* MaxPipeFilings entries.
InitPipe ==
  \E k \in 0..MaxPipeFilings : \E fs \in [1..k -> Accs] :
    \E bs \in 1..MaxBatchSize : BulkProcessorInit(fs, bs)

InitPipeRest == BulkProcessorInit(<<>>, MaxBatchSize)

\* A freshly constructed processor and any descriptor list of up to
\* MaxIntFilings entries, for the runs that may be interrupted.
InitPipeInt ==
  \E k \in 0..MaxIntFilings : \E fs \in [1..k -> Accs] :
    \E bs \in 1..MaxBatchSize : BulkProcessorInit(fs, bs)

\* process_date_range up to _start_workers: the list is taken, the workers
\* are started; an empty list returns at once.
CoordStart ==
  /\ cpc = "init"
  /\ stats' = [ZeroProcessingStats EXCEPT !.total_filings = Len(filings)]
  /\ IF filings = <<>>
     THEN /\ cpc' = "returned"
          /\ UNCHANGED <<dpc, ppc, spc>>
     ELSE /\ cpc' = "put"
          /\ dpc' = [w \in DlWorkers |-> "loop"]
          /\ ppc' = [w \in PaWorkers |-> "loop"]
          /\ spc' = "loop"
  /\ UNCHANGED <<filings, batch_size, cidx, download_queue, parse_queue,
                 storage_queue, unfinished, stop_event, ditem, dreg, pitem,
                 preg, batch, sreg, attempts>>
  /\ UNCHANGED <<rlVars, yrVars, bkVars, arVars, ftVars, wkVars, cdVars>>

\* for filing in filings: self.download_queue.put(filing)
CoordPut ==
  /\ cpc = "put"
  /\ download_queue' = Append(download_queue, filings[cidx])
  /\ unfinished' = [unfinished EXCEPT !.download = put(@)]
  /\ cidx' = cidx + 1
  /\ cpc' = IF cidx = Len(filings) THEN "join_download" ELSE "put"
  /\ UNCHANGED <<filings, batch_size, parse_queue, storage_queue, stop_event,
                 stats, dpc, ditem, dreg, ppc, pitem, preg, spc, batch, sreg,
                 attempts>>
  /\ UNCHANGED <<rlVars, yrVars, bkVars, arVars, ftVars, wkVars, cdVars>>

\* _wait_for_completion: the three queue joins in stage order; after the
\* last one the stop event is set.
CoordJoin ==
  /\ \/ /\ cpc = "join_download"
        /\ unfinished.download = 0
        /\ cpc' = "join_parse"
        /\ UNCHANGED stop_event
     \/ /\ cpc = "join_parse"
        /\ unfinished.parse = 0
        /\ cpc' = "join_storage"
        /\ UNCHANGED stop_event
     \/ /\ cpc = "join_storage"
        /\ unfinished.storage = 0
        /\ cpc' = "join_workers"
        /\ stop_event' = TRUE
  /\ UNCHANGED <<filings, batch_size, cidx, download_queue, parse_queue,
                 storage_queue, unfinished, stats, dpc, ditem, dreg, ppc,
                 pitem, preg, spc, batch, sreg, attempts>>
  /\ UNCHANGED <<rlVars, yrVars, bkVars, arVars, ftVars, wkVars, cdVars>>

\* worker.join(timeout=5) for every worker, whether it has exited or not,
\* then process_date_range returns self.stats.
CoordReturn ==
  /\ cpc = "join_workers"
  /\ cpc' = "returned"
  /\ UNCHANGED <<filings, batch_size, cidx, download_queue, parse_queue,
                 storage_queue, unfinished, stop_event, stats, dpc, ditem,
                 dreg, ppc, pitem, preg, spc, batch, sreg, attempts>>
  /\ UNCHANGED <<rlVars, yrVars, bkVars, arVars, ftVars, wkVars, cdVars>>

Coordinator == CoordStart \/ CoordPut \/ CoordJoin \/ CoordReturn

\* The positions of process_date_range inside the try block of
\* _wait_for_completion, whose handler catches KeyboardInterrupt.
InWaitForCompletion == {"join_download", "join_parse", "join_storage", "join_workers"}

\* KeyboardInterrupt in the coordinating thread.  Inside _wait_for_completion
\* the handler sets the stop event before it joins the workers; anywhere else
\* in process_date_range only "except Exception" and "finally" are in the
\* way, neither of which catches it: it leaves process_date_range at once.
CoordInterrupt ==
  /\ cpc \in {"init", "put"} \cup InWaitForCompletion
  /\ IF cpc \in InWaitForCompletion
     THEN /\ cpc' = "interrupted"
          /\ stop_event' = TRUE
     ELSE /\ cpc' = "raised"
          /\ UNCHANGED stop_event
  /\ UNCHANGED <<filings, batch_size, cidx, download_queue, parse_queue,
                 storage_queue, unfinished, stats, dpc, ditem, dreg, ppc,
                 pitem, preg, spc, batch, sreg, attempts>>
  /\ UNCHANGED <<rlVars, yrVars, bkVars, arVars, ftVars, wkVars, cdVars>>

\* The handler's worker.join(timeout=2) for every worker, whether it has
\* exited or not, then raise.
CoordRaise ==
  /\ cpc = "interrupted"
  /\ cpc' = "raised"
  /\ UNCHANGED <<filings, batch_size, cidx, download_queue, parse_queue,
                 storage_queue, unfinished, stop_event, stats, dpc, ditem,
                 dreg, ppc, pitem, preg, spc, batch, sreg, attempts>>
  /\ UNCHANGED <<rlVars, yrVars, bkVars, arVars, ftVars, wkVars, cdVars>>

\* processor.cleanup() in the finally block of the caller: the stop event is
\* set and the three queues are emptied with get_nowait.
Cleanup ==
  /\ cpc \in {"returned", "raised"}
  /\ cpc' = "cleaned"
  /\ stop_event' = TRUE
  /\ download_queue' = <<>>
  /\ parse_queue' = <<>>
  /\ storage_queue' = <<>>
  /\ UNCHANGED <<filings, batch_size, cidx, unfinished, stats, dpc, ditem,
                 dreg, ppc, pitem, preg, spc, batch, sreg, attempts>>
  /\ UNCHANGED <<rlVars, yrVars, bkVars, arVars, ftVars, wkVars, cdVars>>

\* What the end of the process does to a daemon thread at position pc.
Kill(pc) == IF pc \in {"unstarted", "exited"} THEN pc ELSE "killed"

\* The command ends, or main() calls sys.exit(1) on KeyboardInterrupt: the
\* workers are daemon threads, those still running end where they are.
ProcessExit ==
  /\ cpc = "cleaned"
  /\ cpc' = "exited"
  /\ dpc' = [w \in DlWorkers |-> Kill(dpc[w])]
  /\ ppc' = [w \in PaWorkers |-> Kill(ppc[w])]
  /\ spc' = Kill(spc)
  /\ UNCHANGED <<filings, batch_size, cidx, download_queue, parse_queue,
                 storage_queue, unfinished, stop_event, stats, ditem, dreg,
                 pitem, preg, batch, sreg, attempts>>
  /\ UNCHANGED <<rlVars, yrVars, bkVars, arVars, ftVars, wkVars, cdVars>>

\* _download_worker: the loop test and download_queue.get(timeout=1); a get
\* that times out on an empty queue goes round the loop and changes nothing.
DlGet(w) ==
  /\ dpc[w] = "loop"
  /\ stop_event \/ download_queue # <<>>
  /\ IF stop_event
     THEN /\ dpc' = [dpc EXCEPT ![w] = "exited"]
          /\ UNCHANGED <<download_queue, ditem>>
     ELSE /\ dpc' = [dpc EXCEPT ![w] = "have"]
          /\ ditem' = [ditem EXCEPT ![w] = Head(download_queue)]
          /\ download_queue' = get_rest(download_queue)
  /\ UNCHANGED <<filings, batch_size, cpc, cidx, parse_queue, storage_queue,
                 unfinished, stop_event, stats, dreg, ppc, pitem, preg, spc,
                 batch, sreg, attempts>>
  /\ UNCHANGED <<rlVars, yrVars, bkVars, arVars, ftVars, wkVars, cdVars>>

\* download_form4_filing returns content (ok) or nothing, or raises; the
\* worker queues the content for parsing and reads the counter it will add to.
DlFetch(w, ok, x) ==
  /\ dpc[w] = "have"
  /\ ok \/ x = BadXml
  /\ IF has_content(ok)
     THEN /\ parse_queue' = Append(parse_queue, [acc |-> ditem[w], xml |-> x])
          /\ unfinished' = [unfinished EXCEPT !.parse = put(@)]
          /\ dreg' = [dreg EXCEPT ![w] = [field |-> "downloaded", val |-> stats.downloaded]]
     ELSE /\ dreg' = [dreg EXCEPT ![w] = [field |-> "errors", val |-> stats.errors]]
          /\ UNCHANGED <<parse_queue, unfinished>>
  /\ attempts' = IF ok
                 THEN [attempts EXCEPT !.dl_ok = @ + 1, !.fetched[ditem[w]] = @ + 1]
                 ELSE [attempts EXCEPT !.dl_err = @ + 1]
  /\ dpc' = [dpc EXCEPT ![w] = "inc"]
  /\ UNCHANGED <<filings, batch_size, cpc, cidx, download_queue, storage_queue,
                 stop_event, stats, ditem, ppc, pitem, preg, spc, batch, sreg>>
  /\ UNCHANGED <<rlVars, yrVars, bkVars, arVars, ftVars, wkVars, cdVars>>

\* The store half of self.stats.<counter> += 1, then download_queue.task_done().
DlAck(w) ==
  /\ dpc[w] = "inc"
  /\ stats' = [stats EXCEPT ![dreg[w].field] = dreg[w].val + 1]
  /\ unfinished' = [unfinished EXCEPT !.download = task_done(@)]
  /\ dpc' = [dpc EXCEPT ![w] = "loop"]
  /\ ditem' = [ditem EXCEPT ![w] = 0]
  /\ UNCHANGED <<filings, batch_size, cpc, cidx, download_queue, parse_queue,
                 storage_queue, stop_event, dreg, ppc, pitem, preg, spc, batch,
                 sreg, attempts>>
  /\ UNCHANGED <<rlVars, yrVars, bkVars, arVars, ftVars, wkVars, cdVars>>

DlWorker(w) == DlGet(w) \/ (\E ok \in BOOLEAN, x \in PipeXmls : DlFetch(w, ok, x)) \/ DlAck(w)

\* _parse_worker: the loop test and parse_queue.get(timeout=1).
PaGet(w) ==
  /\ ppc[w] = "loop"
  /\ stop_event \/ parse_queue # <<>>
  /\ IF stop_event
     THEN /\ ppc' = [ppc EXCEPT ![w] = "exited"]
          /\ UNCHANGED <<parse_queue, pitem, attempts>>
     ELSE /\ ppc' = [ppc EXCEPT ![w] = "have"]
          /\ pitem' = [pitem EXCEPT ![w] = Head(parse_queue)]
          /\ parse_queue' = get_rest(parse_queue)
          /\ attempts' = [attempts EXCEPT !.parse_started[Head(parse_queue).acc] = @ + 1]
  /\ UNCHANGED <<filings, batch_size, cpc, cidx, download_queue, storage_queue,
                 unfinished, stop_event, stats, dpc, ditem, dreg, preg, spc,
                 batch, sreg>>
  /\ UNCHANGED <<rlVars, yrVars, bkVars, arVars, ftVars, wkVars, cdVars>>

\* parse_form4_xml returns a parsed form (ok) or nothing, or raises; the
\* worker queues the form for storage and reads the counter it will add to.
PaParse(w, ok) ==
  /\ ppc[w] = "have"
  /\ IF ok
     THEN /\ storage_queue' = Append(storage_queue, pitem[w])
          /\ unfinished' = [unfinished EXCEPT !.storage = put(@)]
          /\ preg' = [preg EXCEPT ![w] = [field |-> "parsed", val |-> stats.parsed]]
          /\ attempts' = [attempts EXCEPT !.parse_ok = @ + 1, !.parsed[pitem[w].acc] = @ + 1]
     ELSE /\ preg' = [preg EXCEPT ![w] = [field |-> "errors", val |-> stats.errors]]
          /\ attempts' = [attempts EXCEPT !.parse_err = @ + 1]
          /\ UNCHANGED <<storage_queue, unfinished>>
  /\ ppc' = [ppc EXCEPT ![w] = "inc"]
  /\ UNCHANGED <<filings, batch_size, cpc, cidx, download_queue, parse_queue,
                 stop_event, stats, dpc, ditem, dreg, pitem, spc, batch, sreg>>
  /\ UNCHANGED <<rlVars, yrVars, bkVars, arVars, ftVars, wkVars, cdVars>>

\* The store half of self.stats.<counter> += 1, then parse_queue.task_done().
PaAck(w) ==
  /\ ppc[w] = "inc"
  /\ stats' = [stats EXCEPT ![preg[w].field] = preg[w].val + 1]
  /\ unfinished' = [unfinished EXCEPT !.parse = task_done(@)]
  /\ ppc' = [ppc EXCEPT ![w] = "loop"]
  /\ pitem' = [pitem EXCEPT ![w] = NoItem]
  /\ UNCHANGED <<filings, batch_size, cpc, cidx, download_queue, parse_queue,
                 storage_queue, stop_event, dpc, ditem, dreg, preg, spc, batch,
                 sreg, attempts>>
  /\ UNCHANGED <<rlVars, yrVars, bkVars, arVars, ftVars, wkVars, cdVars>>

PaWorker(w) == PaGet(w) \/ (\E ok \in BOOLEAN : PaParse(w, ok)) \/ PaAck(w)

\* _storage_worker: the loop test and storage_queue.get(timeout=1).  An item
\* taken joins the batch and is acknowledged, after the batch has been
\* processed if that made it full; a get that times out processes a batch
\* that is not empty; after the loop the rest of the batch is processed.
StGet ==
  /\ spc = "loop"
  /\ IF stop_event
     THEN /\ spc' = "final"
          /\ UNCHANGED <<storage_queue, batch, unfinished>>
     ELSE IF storage_queue # <<>>
     THEN /\ storage_queue' = get_rest(storage_queue)
          /\ batch' = Append(batch, Head(storage_queue))
          /\ IF Len(batch') >= batch_size
             THEN /\ spc' = "full"
                  /\ UNCHANGED unfinished
             ELSE /\ spc' = "loop"
                  /\ unfinished' = [unfinished EXCEPT !.storage = task_done(@)]
     ELSE /\ batch # <<>>
          /\ spc' = "timeout"
          /\ UNCHANGED <<storage_queue, batch, unfinished>>
  /\ UNCHANGED <<filings, batch_size, cpc, cidx, download_queue, parse_queue,
                 stop_event, stats, dpc, ditem, dreg, ppc, pitem, preg, sreg,
                 attempts>>
  /\ UNCHANGED <<rlVars, yrVars, bkVars, arVars, ftVars, wkVars, cdVars>>

\* _process_storage_batch handles the next item of the batch; a storage
\* error reads stats.errors to add to it.
StItem ==
  /\ spc \in {"full", "timeout", "final"}
  /\ batch # <<>>
  /\ LET r == process_storage_item(store, Head(batch).acc, Head(batch).xml)
     IN /\ store' = r.rows
        /\ stats' = [stats EXCEPT !.stored = @ + r.stored]
        /\ IF r.errors = 1
           THEN /\ sreg' = stats.errors
                /\ spc' = "err_" \o spc
           ELSE UNCHANGED <<sreg, spc>>
  /\ batch' = Tail(batch)
  /\ attempts' = [attempts EXCEPT !.store_handled[Head(batch).acc] = @ + 1]
  /\ UNCHANGED <<filings, batch_size, cpc, cidx, download_queue, parse_queue,
                 storage_queue, unfinished, stop_event, dpc, ditem, dreg, ppc,
                 pitem, preg>>
  /\ UNCHANGED <<rlVars, yrVars, bkRest, arVars, ftVars, wkVars, cdVars>>

\* The store half of self.stats.errors += 1 in _process_storage_batch.
StErr ==
  /\ spc \in {"err_full", "err_timeout", "err_final"}
  /\ stats' = [stats EXCEPT !.errors = sreg + 1]
  /\ spc' = CASE spc = "err_full" -> "full"
              [] spc = "err_timeout" -> "timeout"
              [] OTHER -> "final"
  /\ UNCHANGED <<filings, batch_size, cpc, cidx, download_queue, parse_queue,
                 storage_queue, unfinished, stop_event, dpc, ditem, dreg, ppc,
                 pitem, preg, batch, sreg, attempts>>
  /\ UNCHANGED <<rlVars, yrVars, bkVars, arVars, ftVars, wkVars, cdVars>>

\* _process_storage_batch has returned: the item that filled the batch is
\* acknowledged, or the loop goes on, or the worker ends.
StBatchDone ==
  /\ spc \in {"full", "timeout", "final"}
  /\ batch = <<>>
  /\ spc' = IF spc = "final" THEN "exited" ELSE "loop"
  /\ unfinished' = IF spc = "full"
                   THEN [unfinished EXCEPT !.storage = task_done(@)]
                   ELSE unfinished
  /\ UNCHANGED <<filings, batch_size, cpc, cidx, download_queue, parse_queue,
                 storage_queue, stop_event, stats, dpc, ditem, dreg, ppc,
                 pitem, preg, batch, sreg, attempts>>
  /\ UNCHANGED <<rlVars, yrVars, bkVars, arVars, ftVars, wkVars, cdVars>>

StWorker == StGet \/ StItem \/ StErr \/ StBatchDone

NextPipe ==
  \/ CoordStart
  \/ CoordPut
  \/ CoordJoin
  \/ CoordReturn
  \/ \E w \in DlWorkers : DlGet(w)
  \/ \E w \in DlWorkers, ok \in BOOLEAN, x \in PipeXmls : DlFetch(w, ok, x)
  \/ \E w \in DlWorkers : DlAck(w)
  \/ \E w \in PaWorkers : PaGet(w)
  \/ \E w \in PaWorkers, ok \in BOOLEAN : PaParse(w, ok)
  \/ \E w \in PaWorkers : PaAck(w)
  \/ StGet
  \/ StItem
  \/ StErr
  \/ StBatchDone

\* Every worker thread of the last run has ended, or none was started.
WorkersGone ==
  /\ \A w \in DlWorkers : dpc[w] \in {"unstarted", "exited"}
  /\ \A w \in PaWorkers : ppc[w] \in {"unstarted", "exited"}
  /\ spc \in {"unstarted", "exited"}

\* process_date_range called again on the same BulkProcessor, after a run
\* has returned or after cleanup(), with a list fs that is not empty: the
\* statistics are replaced, new worker threads are started; the queues and
\* the stop event are those made by __init__.
CoordRerun(fs) ==
  /\ cpc \in {"returned", "cleaned"}
  /\ WorkersGone
  /\ batch = <<>>
  /\ fs # <<>>
  /\ filings' = fs
  /\ cidx' = 1
  /\ stats' = [ZeroProcessingStats EXCEPT !.total_filings = Len(fs)]
  /\ cpc' = "put"
  /\ dpc' = [w \in DlWorkers |-> "loop"]
  /\ ppc' = [w \in PaWorkers |-> "loop"]
  /\ spc' = "loop"
  /\ UNCHANGED <<batch_size, download_queue, parse_queue, storage_queue,
                 unfinished, stop_event, ditem, dreg, pitem, preg, batch, sreg,
                 attempts>>
  /\ UNCHANGED <<rlVars, yrVars, bkVars, arVars, ftVars, wkVars, cdVars>>

\* Runs of process_date_range one after the other on one BulkProcessor, with
\* or without cleanup() in between.
NextRerun ==
  \/ NextPipe
  \/ Cleanup
  \/ \E k \in 1..MaxIntFilings : \E fs \in [1..k -> Accs] : CoordRerun(fs)

\* A run of the pipeline from the command line, which may be interrupted.
NextPipeInt ==
  \/ NextPipe
  \/ CoordInterrupt
  \/ CoordRaise
  \/ Cleanup
  \/ ProcessExit

\* The scheduler always lets some thread that can take a step take one.  This
\* is weaker than fairness to each thread, which the claim allows to assume.
FairPipe == WF_vars(NextPipe)

(***************************************************************************)
(* Specifications: one per component, the other components at rest         *)
(***************************************************************************)
InitRL == \E m \in 1..MaxCeiling, w \in 1..MaxWindow : RateLimiterInit(m, w)

InitRLRest == RateLimiterInit(MaxCeiling, MaxWindow)

\* the rate limiter under concurrent callers
InitSpecRL == InitRL /\ InitYears /\ InitBulkRest /\ InitPipeRest /\ InitARLRest /\ InitFetch /\ InitWorkers /\ InitCooldownRest

SpecRL == InitSpecRL /\ [][NextRL]_vars

\* the orchestrators and the downloaded_years table
InitSpecYears == InitRLRest /\ InitYears /\ InitBulkRest /\ InitPipeRest /\ InitARLRest /\ InitFetch /\ InitWorkers /\ InitCooldownRest

SpecYears == InitSpecYears /\ [][NextYears]_vars

\* The two status setters applied in any order to any unit.
InitSpecMark ==
  /\ InitRLRest /\ InitMark /\ InitBulkRest /\ InitPipeRest /\ InitARLRest
  /\ InitFetch /\ InitWorkers /\ InitCooldownRest

SpecMark == InitSpecMark /\ [][NextMark]_vars

\* The bulk path alone: consecutive runs of download_and_store_filings on one list.
InitSpecBulk == InitRLRest /\ InitYears /\ InitBulk /\ InitPipeRest /\ InitARLRest /\ InitFetch /\ InitWorkers /\ InitCooldownRest

SpecBulk == InitSpecBulk /\ [][NextBulk]_vars

\* One bulk run on a table that earlier runs have filled in part.
InitSpecPrefilter == InitRLRest /\ InitYears /\ InitPrefilter /\ InitPipeRest /\ InitARLRest /\ InitFetch /\ InitWorkers /\ InitCooldownRest

SpecPrefilter == InitSpecPrefilter /\ [][NextBulk]_vars

\* The bulk path with the pipeline's store stage writing to the same table.
SpecStore == InitSpecBulk /\ [][NextStore]_vars

\* One pipeline run of a freshly constructed BulkProcessor.
InitSpecPipe == InitRLRest /\ InitYears /\ InitBulkRest /\ InitPipe /\ InitARLRest /\ InitFetch /\ InitWorkers /\ InitCooldownRest

SpecPipe == InitSpecPipe /\ [][NextPipe]_vars

\* A pipeline run started by main(), with interrupts and the end of the process.
InitSpecPipeInt ==
  /\ InitRLRest /\ InitYears /\ InitBulkRest /\ InitPipeInt /\ InitARLRest
  /\ InitFetch /\ InitWorkers /\ InitCooldownRest

SpecPipeInt == InitSpecPipeInt /\ [][NextPipeInt]_vars

\* One BulkProcessor used for several runs.
SpecRerun == InitSpecPipeInt /\ [][NextRerun]_vars

\* One run of either path: a pipeline run of a BulkProcessor or runs of
\* download_and_store_filings, each on any descriptor list.
InitSpecEither ==
  /\ InitRLRest /\ InitYears /\ InitARLRest /\ InitFetch /\ InitWorkers /\ InitCooldownRest
  /\ \/ InitBulkRest /\ InitPipe
     \/ InitBulk /\ InitPipeRest

\* The process runs the path it was given a list for.
NextEither ==
  \/ all_filings = <<>> /\ NextPipe
  \/ all_filings # <<>> /\ NextBulk

SpecEither == InitSpecEither /\ [][NextEither]_vars

\* One run of an orchestrator over its units, none of which raises, with what
\* it does to the store for each unit.  all_filings is the list discovered for the unit in hand.
\* cmd_conservative_bulk calls download_and_store_filings on that list and
\* marks the unit when the call has returned; ComprehensiveScraper marks the
\* unit on the result of SECBulkDownloader.download_year, which is True
\* when bulk_download_year found any filing and which stores nothing.
InitSpecUnit ==
  /\ InitRLRest /\ InitYears /\ InitBulk /\ InitPipeRest /\ InitARLRest
  /\ InitFetch /\ InitWorkers /\ InitCooldownRest

\* The run of download_and_store_filings for the unit in hand has returned.
StoreCallReturned == bpc = "idle" /\ bulkRuns = oidx

NextUnit ==
  \/ \E path \in {"cli", "scraper"} : runNo = 0 /\ StartRun(path, FALSE)
  \/ BeginUnit
  \/ opc = "unit" /\ opath = "cli" /\ bulkRuns < oidx /\ BulkStart(FALSE)
  \/ \E k \in 1..Len(to_process), r \in FetchOutcomes : BulkFetch(k, r)
  \/ BulkStoreItem
  \/ BulkCommit
  \/ opath = "cli" /\ StoreCallReturned /\ EndUnit("ok")
  \/ opath = "scraper" /\ all_filings # <<>> /\ EndUnit("ok")
  \/ EndRun

SpecUnit == InitSpecUnit /\ [][NextUnit]_vars

\* The same run under fair scheduling of the coordinator and the workers.
FairSpecPipe == InitSpecPipe /\ [][NextPipe]_vars /\ FairPipe

\* An AdaptiveRateLimiter shared by threads that report throttles and successes.
InitSpecARL == InitARL /\ InitYears /\ InitBulkRest /\ InitPipeRest /\ InitFetch /\ InitWorkers /\ InitCooldownRest

SpecARL == InitSpecARL /\ [][NextARL]_vars

\* The same with every thread going on to report successes.
FairSpecARL == InitSpecARL /\ [][NextARL]_vars /\ FairARL

\* The adaptive limiter with admissions interleaved with the reports.
NextAdmitARL ==
  \/ NextARL
  \/ \E t \in RLThreads : Len(admissions) < MaxReportAdmissions /\ WaitEnter(t)
  \/ \E t \in RLThreads : WaitWake(t)
  \/ Tick

SpecAdmitARL == InitSpecARL /\ [][NextAdmitARL]_vars

\* One fetch operation, on either path, against any sequence of answers.
InitSpecFetch ==
  /\ InitRLRest /\ InitYears /\ InitBulkRest /\ InitPipeRest /\ InitARLRest
  /\ InitFetch /\ InitWorkers /\ InitCooldownRest

SpecFetch == InitSpecFetch /\ [][NextFetch]_vars

\* The chunk loop of download_and_store_filings with its throttle check.
InitSpecCooldown ==
  /\ InitRLRest /\ InitYears /\ InitBulkRest /\ InitPipeRest /\ InitARLRest
  /\ InitFetch /\ InitWorkers /\ InitCooldown

SpecCooldown == InitSpecCooldown /\ [][NextCooldown]_vars

\* The download workers of either path, for any requested worker count.
InitSpecWorkers ==
  /\ InitRLRest /\ InitYears /\ InitBulkRest /\ InitPipeRest /\ InitARLRest
  /\ InitFetch /\ InitWorkers /\ InitCooldownRest

SpecWorkers == InitSpecWorkers /\ [][NextWorkers]_vars

\* C1: no time interval of length time_window contains more than max_requests
\* admissions: the admission that follows max_requests others is at least
\* time_window later than the first of them.
C1_RateBound ==
  \A i \in 1..Len(admissions) :
    \A j \in 1..Len(admissions) :
      j = i + max_requests => admissions[j] - admissions[i] >= time_window

(***************************************************************************)
(* Claims about the interrupt of a multi-unit run                          *)
(***************************************************************************)

\* C7: when a process has exited after an interrupt that arrived while it was
\* processing a unit whose row said in_progress, that unit's row says failed
\* with the cancellation message.
C7_InterruptedUnitFailed ==
  (opc = "idle" /\ intSeen /\ intUnit # 0
     /\ preInt[intUnit].status = "in_progress")
  => /\ downloaded_years[intUnit].status = "failed"
     /\ downloaded_years[intUnit].error_message = "Cancelled by user"

\* C8: when a process has exited after an interrupt that arrived while it was
\* processing a unit, every other unit has the status it had when the
\* interrupt arrived.
C8_OnlyInterruptedUnitChanges ==
  (opc = "idle" /\ intSeen /\ intUnit # 0)
  => \A y \in Years :
       y # intUnit => downloaded_years[y].status = preInt[y].status

\* C9: the incremental run that follows an interrupted run selects the
\* interrupted unit and selects no unit that was completed when the interrupt
\* arrived.
C9_NextRunPicksInterrupted ==
  (opc # "idle" /\ ~oforce /\ intSeen /\ intUnit # 0)
  => /\ intUnit \in Range(years_to_process)
     /\ \A y \in Years :
          preInt[y].status = "completed" => y \notin Range(years_to_process)

\* C2: after any sequence of store passes, of the bulk path and of the
\* pipeline, in any interleaving, the table holds at most one row for each
\* accession number.
C2_OneRowPerAccession == \A a \in Accs : CountAcc(store, a) <= 1

\* C2 witness: a bulk store pass and a pipeline store pass have both been
\* handed the same accession number, and the table holds it.
C2_Witness ==
  /\ lastPass.valid
  /\ lastPipe.valid
  /\ \E i \in 1..Len(lastPass.results) :
       /\ lastPass.results[i].status = "success"
       /\ lastPass.results[i].acc = lastPipe.acc
  /\ lastPipe.acc \in AccsOf(store)

\* The number of descriptors of the list whose accession number is in rows.
CountKnown(descriptors, rows) ==
  Cardinality({i \in 1..Len(descriptors) : descriptors[i] \in AccsOf(rows)})

IsPrefix(p, q) == Len(p) <= Len(q) /\ SubSeq(q, 1, Len(p)) = p

TwoPlainRuns == Len(hist) = 2 /\ ~hist[1].force /\ ~hist[2].force

\* C3 as stated: after two consecutive runs on the same list with force=false
\* the number of rows after the second run equals the number after the
\* first, and every descriptor the first run stored is counted as skipped by
\* the second and is neither fetched nor stored again.
C3_SecondRunChangesNothing ==
  TwoPlainRuns =>
    /\ Len(hist[2].after) = Len(hist[1].after)
    /\ hist[2].stats.skipped = CountKnown(all_filings, hist[1].after)
    /\ Range(hist[2].to_process) \cap AccsOf(hist[1].after) = {}

\* C3 amended: after two consecutive runs on the same list with force=false,
\* every descriptor whose accession number is in the table after the first
\* run is counted as skipped by the second run, is not fetched, and its row
\* is left as it was; the number of rows is unchanged when every descriptor
\* of the list is in the table after the first run.
C3_SecondRunSkipsStored ==
  TwoPlainRuns =>
    /\ hist[2].stats.skipped = CountKnown(all_filings, hist[1].after)
    /\ Range(hist[2].to_process) \cap AccsOf(hist[1].after) = {}
    /\ IsPrefix(hist[1].after, hist[2].after)
    /\ (Range(all_filings) \subseteq AccsOf(hist[1].after)
          => Len(hist[2].after) = Len(hist[1].after))

\* C3 witness: two runs with force=false have finished, the first stored a
\* row, and the second skipped it and stored another one.
C3_Witness ==
  /\ TwoPlainRuns
  /\ hist[1].after # <<>>
  /\ hist[2].stats.skipped > 0
  /\ Len(hist[2].after) > Len(hist[1].after)

\* The store-stage accounting of one pass: items handed to it, and how many
\* of them it counted as stored, as skipped and as errors.
BulkPassBalanced ==
  lastPass.valid =>
    lastPass.stats.stored + lastPass.skipped + lastPass.stats.errors
      = Len(lastPass.results)

\* C6: for every store pass, stored + skipped + store-stage errors equals the
\* number of items handed to the pass: every item is counted exactly once,
\* and an item found present under force=false is counted as skipped.
C6_StoreAccounting ==
  /\ BulkPassBalanced
  /\ lastPipe.valid => lastPipe.stored + 0 + lastPipe.errors = 1

LastGood(results, a) ==
  LET idx == {i \in 1..Len(results) : results[i].acc = a /\ results[i].status = "success"}
  IN results[CHOOSE i \in idx : \A k \in idx : k <= i].xml

XmlOf(rows, a) == rows[CHOOSE i \in 1..Len(rows) : rows[i].acc = a].xml

\* C10: after a store pass with force=true, a row that was present and was
\* handed to the pass holds the content handed last and the item is counted
\* as stored; after a pass with force=false every row that was present is
\* unchanged.
C10_ForceOverwrites ==
  lastPass.valid =>
    IF lastPass.force
    THEN \A i \in 1..Len(lastPass.results) :
           LET r == lastPass.results[i] IN
           (r.status = "success" /\ r.xml # BadXml /\ r.acc \in AccsOf(lastPass.before))
             => /\ XmlOf(store, r.acc) = LastGood(lastPass.results, r.acc)
                /\ lastPass.stats.stored >= 1
    ELSE IsPrefix(lastPass.before, store)

\* C4: under fair scheduling, process_date_range on a fresh BulkProcessor
\* with any finite descriptor list eventually returns: the three queue waits
\* complete, the stop signal is raised and the workers are joined.
C4_Terminates == <>(cpc = "returned")

\* C4 witness: the run has returned after every submitted descriptor went
\* through a download worker, the queue waits completed and stop was raised.
C4_Witness ==
  /\ cpc = "returned"
  /\ stop_event
  /\ Len(filings) = MaxPipeFilings
  /\ attempts.dl_ok + attempts.dl_err = Len(filings)
  /\ attempts.parse_ok > 0

\* C5: when process_date_range has returned, downloaded plus the errors
\* counted at the download stage equals the number of descriptors submitted,
\* parsed plus the errors counted at the parse stage equals downloaded, and
\* no increment of a counter was lost.
C5_CountersExact ==
  cpc = "returned" =>
    /\ stats.downloaded = attempts.dl_ok
    /\ stats.parsed = attempts.parse_ok
    /\ stats.downloaded + attempts.dl_err = stats.total_filings
    /\ stats.parsed + attempts.parse_err = stats.downloaded

\* The positions of a finished store pass whose item raised a storage error
\* other than a duplicate-key conflict: a fetched content the database refuses.
FailingItems(results) ==
  {i \in 1..Len(results) : results[i].status = "success" /\ results[i].xml = BadXml}

\* C11: after a committed store pass over a batch of fetched items of which
\* exactly one raises a storage error other than a duplicate-key conflict,
\* every other item of the batch is in the store and the pass counted
\* exactly one error, wherever in the batch the failing item stands.
C11_OneFailureIsolated ==
  (/\ lastPass.valid
   /\ \A i \in 1..Len(lastPass.results) : lastPass.results[i].status = "success"
   /\ Cardinality(FailingItems(lastPass.results)) = 1)
  => /\ \A i \in 1..Len(lastPass.results) :
          i \notin FailingItems(lastPass.results)
            => lastPass.results[i].acc \in AccsOf(store)
     /\ lastPass.stats.errors = 1

\* The incremental policy as the specification states it, for one row at time t.
NeedsWork(rec, t) ==
  \/ rec.status = "none"
  \/ rec.status = "failed"
  \/ /\ rec.status = "in_progress"
     /\ rec.download_started # Null
     /\ t - rec.download_started > StaleHours

\* C12: a run under the incremental policy selects a year of the range if
\* and only if the year has no row, or is failed, or is in_progress and was
\* started more than 24 hours ago; completed years and in_progress years
\* started within the threshold are not selected.
C12_IncrementalSelection ==
  [][(opc = "idle" /\ opc' = "loop" /\ ~oforce')
       => \A y \in Years :
            y \in Range(years_to_process') <=> NeedsWork(downloaded_years[y], hour)]_vars

\* The status changes the specification allows for one row.
AllowedChange(a, b) ==
  \/ a = "none" /\ b = "in_progress"
  \/ a = "pending" /\ b = "in_progress"
  \/ a = "in_progress" /\ b = "completed"
  \/ a = "in_progress" /\ b = "failed"
  \/ a = "failed" /\ b = "in_progress"

\* C13: every step changes a year's status only along none/pending ->
\* in_progress, in_progress -> completed, in_progress -> failed or failed ->
\* in_progress, and a year that is in_progress is marked in_progress again
\* only if it was started more than 24 hours ago; so a completed year never
\* changes and no year becomes completed or failed from another status.
C13_StatusTransitions ==
  [][\A y \in Years :
       LET a == downloaded_years[y]
           b == downloaded_years'[y]
       IN /\ a.status # b.status => AllowedChange(a.status, b.status)
          /\ (/\ opc = "loop"
              /\ opc' = "unit"
              /\ years_to_process[oidx] = y
              /\ a.status = "in_progress")
             => hour - a.download_started > StaleHours]_vars

\* C14: every handle_rate_limit_exceeded call sets the ceiling to
\* max(min_requests, floor(ceiling * backoff_factor)), the success counter to
\* 0 and backoff_active to true; the ceiling strictly decreases at each call
\* while it is above min_requests and is never taken below min_requests.
C14_ThrottleLowersCeiling ==
  [][throttles' = throttles + 1 =>
       /\ max_requests' =
            Max2(min_requests, (max_requests * backoff_factor[1]) \div backoff_factor[2])
       /\ consecutive_successes' = 0
       /\ backoff_active'
       /\ max_requests' >= min_requests
       /\ (max_requests > min_requests => max_requests' < max_requests)
       /\ (max_requests = min_requests => max_requests' = min_requests)]_vars

\* C14 witness: consecutive throttle reports have taken the ceiling from the
\* original maximum down to min_requests.
C14_Witness ==
  /\ throttles = MaxThrottles
  /\ since = 0
  /\ backoff_active
  /\ max_requests = min_requests
  /\ max_requests < original_max_requests

\* C15: outside a throttle report the limiter state (ceiling, success
\* counter, backoff flag) changes only while backoff is active, by a success
\* report; that report raises the ceiling by exactly 1, never above the
\* original maximum, and resets the counter when it is the 10th success
\* counted since the last throttle report or increase, and otherwise leaves
\* the ceiling unchanged.
C15_SuccessRaisesEveryTenth ==
  [][(/\ throttles' = throttles
      /\ <<max_requests, consecutive_successes, backoff_active>>' #
           <<max_requests, consecutive_successes, backoff_active>>)
     => /\ backoff_active
        /\ \E t \in RLThreads : apc[t] = "succ" /\ apc'[t] = "idle"
        /\ max_requests' <= original_max_requests
        /\ IF since + 1 >= SuccessThreshold
           THEN /\ max_requests' = Min2(original_max_requests, max_requests + 1)
                /\ consecutive_successes' = 0
           ELSE max_requests' = max_requests]_vars

\* C16: once throttle reports have stopped and success reports go on, the
\* ceiling eventually equals the original maximum, backoff_active is false,
\* and both stay so.
C16_CeilingRestored ==
  <>[](max_requests = original_max_requests /\ ~backoff_active)

\* C16 witness: the ceiling was lowered to the floor by throttle reports and
\* is back at the original maximum with backoff inactive.
C16_Witness ==
  /\ throttles = MaxThrottles
  /\ ~backoff_active
  /\ min_requests < original_max_requests
  /\ max_requests = original_max_requests

\* C17: a run with force=false leaves in its work list exactly the
\* descriptors whose accession number is not in the store when the
\* pre-filter runs and counts every other descriptor once in skipped; fetches
\* are issued only for entries of the work list, each once, and change
\* neither the work list nor skipped; a run whose work list has distinct
\* numbers, all fetched and stored without failure, returns downloaded and
\* stored equal to the length of the work list, errors 0 and skipped equal to
\* the number of descriptors dropped (1, 1, 2, 0 for three descriptors of
\* which two are stored).
C17_PrefilterSkipsStored ==
  [][/\ (bpc = "idle" /\ bulkRuns' = bulkRuns + 1 /\ ~bforce') =>
          /\ to_process' = SelectSeq(all_filings, LAMBDA a : a \notin AccsOf(store))
          /\ bstats'.skipped = CountKnown(all_filings, store)
          /\ bstats'.downloaded = 0
          /\ batch_results' = <<>>
     /\ (bpc = "fetch" /\ ~bforce) =>
          /\ to_process' = to_process
          /\ bstats'.skipped = bstats.skipped
          /\ Len(batch_results') = Cardinality(fetched')
          /\ \E k \in fetched' \ fetched :
               /\ fetched' = fetched \cup {k}
               /\ batch_results'[Len(batch_results')].acc = to_process[k]
     /\ (bpc = "store" /\ bpc' = "idle" /\ ~bforce) =>
          LET rec == hist'[Len(hist')] IN
          /\ rec.stats.skipped = Len(all_filings) - Len(rec.to_process)
          /\ (/\ Cardinality(Range(rec.to_process)) = Len(rec.to_process)
              /\ \A i \in 1..Len(batch_results) :
                   batch_results[i].status = "success" /\ batch_results[i].xml # BadXml)
             => rec.stats = [downloaded |-> Len(rec.to_process),
                             stored |-> Len(rec.to_process),
                             errors |-> 0,
                             skipped |-> Len(all_filings) - Len(rec.to_process)]]_vars

\* C17 witness: three descriptors with distinct numbers, two of them stored
\* before the run; the run has returned downloaded=1, stored=1, skipped=2,
\* errors=0 and the third is now stored.
C17_Witness ==
  /\ bpc = "idle"
  /\ Len(hist) = 1
  /\ ~hist[1].force
  /\ Len(all_filings) = 3
  /\ Cardinality(Range(all_filings)) = 3
  /\ hist[1].stats = [downloaded |-> 1, stored |-> 1, errors |-> 0, skipped |-> 2]
  /\ Len(store) = 3
  /\ Range(all_filings) = AccsOf(store)

\* C18: when process_date_range has returned its statistics after a normal
\* completion wait, no item is left on the storage queue or in the store
\* worker's batch.
C18_NothingUnflushedAtReturn ==
  (cpc = "returned" /\ filings # <<>>) =>
    /\ storage_queue = <<>>
    /\ batch = <<>>

\* C19: a fetch operation for one descriptor issues at most 3 retrieval
\* requests whatever the archive answers, and when it has returned it has
\* returned a success or a failure.
C19_AtMostThreeRequests ==
  /\ sent <= 3
  /\ fpc = "returned" => fresult \in {"success", "error"}

\* C19 witness: a fetch operation has returned a failure after its third
\* request was throttled like the two before.
C19_Witness ==
  /\ fpc = "returned"
  /\ sent = 3
  /\ response = "throttled"
  /\ fresult = "error"

\* C20: on either path, a request answered by a non-success status other
\* than the throttle status, or ended by a transport exception, makes the
\* fetch operation return a failure at once, with no further request.
C20_PermanentFailureNotRetried ==
  [][(sent' = sent + 1 /\ response' \in {"status", "transport"})
       => (fpc' = "returned" /\ fresult' = "error")]_vars

\* C21: on either path, every request of a fetch operation that is answered
\* with the throttle status makes exactly one handle_rate_limit_exceeded
\* report to the adaptive limiter in the same step, before any retry: the
\* report count rises by one, backoff becomes active and the ceiling is
\* lowered unless it is already at min_requests.
C21_ThrottleReported ==
  [][(sent' = sent + 1 /\ response' = "throttled")
       => /\ throttles' = throttles + 1
          /\ backoff_active'
          /\ (max_requests > min_requests => max_requests' < max_requests)]_vars

\* C22: on either path, a request answered with status 200 and a payload of
\* fewer than 100 characters makes the fetch operation return a failure at
\* once, so the descriptor is not retried and is not handed to the parse stage.
C22_ShortPayloadRejected ==
  [][(sent' = sent + 1 /\ response' \in {"short", "empty"})
       => (fpc' = "returned" /\ fresult' = "error")]_vars

\* C23: on either path the number of fetch operations in flight never
\* exceeds 8, whatever worker count the caller asked for.
C23_InFlightCapped == in_flight <= 8

\* C24: in a pipeline run, for every accession number, a parse has started
\* at most as often as a fetch has succeeded, has succeeded at most as often
\* as it has started, and a store pass has handled it at most as often as a
\* parse has succeeded: within a descriptor fetch precedes parse precedes
\* store, and nothing is parsed unfetched or stored unparsed.
C24_StageOrder ==
  \A a \in Accs :
    /\ attempts.parse_started[a] <= attempts.fetched[a]
    /\ attempts.parsed[a] <= attempts.parse_started[a]
    /\ attempts.store_handled[a] <= attempts.parsed[a]

\* C24 witness: the descriptor queued second has been fetched, parsed and
\* handled by a store pass while the one queued first, with another
\* accession number, has not been fetched yet.
C24_Witness ==
  /\ Len(filings) = 2
  /\ filings[1] # filings[2]
  /\ attempts.store_handled[filings[2]] = 1
  /\ attempts.fetched[filings[1]] = 0
  /\ attempts.dl_err = 0

\* C25: when the processing of a unit ends by an exception, on either
\* orchestrator, the unit's row then says failed and carries the exception
\* message, no other row changes, and the run stays in its loop with the
\* same list and the next unit; a run leaves its loop without an interrupt
\* only after the last selected unit.
C25_ExceptionMarksFailedAndGoesOn ==
  [][/\ EndUnit("exception") =>
          LET year == years_to_process[oidx] IN
          /\ downloaded_years'[year].status = "failed"
          /\ downloaded_years'[year].error_message = "exception"
          /\ \A y \in Years \ {year} : downloaded_years'[y] = downloaded_years[y]
          /\ opc' = "loop"
          /\ years_to_process' = years_to_process
          /\ oidx' = oidx + 1
     /\ (opc = "loop" /\ opc' = "idle" /\ ~intSeen') => oidx > Len(years_to_process)]_vars

\* C25 witness: in one run the first unit ended by an exception and is
\* failed with its message, and the unit after it was then processed to
\* completion.
C25_Witness ==
  /\ runNo = 1
  /\ opc = "loop"
  /\ years_to_process = <<1, 2>>
  /\ oidx = 3
  /\ downloaded_years[1].status = "failed"
  /\ downloaded_years[1].error_message = "exception"
  /\ downloaded_years[2].status = "completed"

\* C26: no thread is inside the sleep of wait_if_needed while it holds the
\* limiter's lock, so the lock is free for the other threads whenever a
\* caller is waiting for the oldest window entry to expire.
C26_NoSleepUnderLock ==
  \A t \in RLThreads : rpc[t] = "sleeping" => lock # t

\* C27: in every reachable state of an adaptive limiter constructed with
\* 1 <= min_requests <= max_requests, the ceiling lies between min_requests
\* and the original maximum, whatever the interleaving of admissions,
\* throttle reports and success reports.
C27_CeilingInRange ==
  /\ min_requests <= max_requests
  /\ max_requests <= original_max_requests

\* C27 witness: after admissions and reports from the threads the ceiling
\* lies strictly between the two limits while a caller sleeps in its admission.
C27_Witness ==
  /\ min_requests < max_requests
  /\ max_requests < original_max_requests
  /\ throttles >= 1
  /\ since >= 1
  /\ Len(admissions) >= 1
  /\ \E t \in RLThreads : rpc[t] = "sleeping"

\* What a status call may change: nothing in another unit's row, and in the
\* unit's own row at most the columns in allowed.
FrameKept(old, new, year, allowed) ==
  /\ \A y \in Years : y # year => new[y] = old[y]
  /\ \A f \in DOMAIN old[year] \ allowed : new[year][f] = old[year][f]

\* C28: a call that marks a unit started, completed or failed, through
\* either setter, writes the status passed and every counter or message
\* supplied, and changes nothing but the status, the timestamps and what was
\* supplied: every other column of the row and every other row are kept.
C28_MarkFrame ==
  [][/\ \A year \in Years, v \in 1..MaxCount : \A c \in CliCalls(v) :
          MarkCli(year, c.status, c.kw) =>
            /\ FrameKept(downloaded_years, downloaded_years', year,
                         {"status"} \cup Timestamps \cup DOMAIN c.kw)
            /\ downloaded_years'[year].status = c.status
            /\ \A f \in DOMAIN c.kw : downloaded_years'[year][f] = c.kw[f]
     /\ \A year \in Years : \A c \in ScraperCalls(hour) :
          MarkScraper(year, c.status, c.kw) =>
            /\ FrameKept(downloaded_years, downloaded_years', year,
                         {"status"} \cup Timestamps \cup DOMAIN c.kw)
            /\ downloaded_years'[year].status = c.status
            /\ \A f \in DOMAIN c.kw : downloaded_years'[year][f] = c.kw[f]]_vars

\* C28 witness: unit 1 was marked failed with a message, then started with
\* its discovery counters, then completed with its storage counters; the
\* row holds all of them, and unit 2 is still as it was marked.
C28_Witness ==
  /\ downloaded_years[1].status = "completed"
  /\ downloaded_years[1].error_message = "exception"
  /\ downloaded_years[1].total_filings = 1
  /\ downloaded_years[1].stored_count = 1
  /\ downloaded_years[1].download_started # Null
  /\ downloaded_years[2].status = "in_progress"
  /\ downloaded_years[2].stored_count = 0

\* C29: an interrupt that reaches the coordinator while the workers are
\* running sets the stop event in the same step, wherever in the run the
\* coordinator is, and an interrupted run does not return its statistics.
C29_InterruptRaisesStop ==
  [][/\ (cpc \notin {"interrupted", "raised"} /\ cpc' \in {"interrupted", "raised"}
           /\ spc # "unstarted") => stop_event'
     /\ cpc \in {"interrupted", "raised"} => cpc' # "returned"]_vars

\* C30: no worker ends while it holds an item: a download worker with a
\* descriptor taken, a parse worker with a document taken, the store worker
\* with items in its batch.
C30_NoWorkerCutShort ==
  /\ \A w \in DlWorkers : dpc[w] = "killed" => ditem[w] = 0
  /\ \A w \in PaWorkers : ppc[w] = "killed" => pitem[w] = NoItem
  /\ spc = "killed" => batch = <<>>

\* C31: each of the three queues of the pipeline has a finite capacity, and
\* the number of items pending in it never exceeds that capacity.
C31_QueuesBounded ==
  /\ QueueMaxsize > 0
  /\ Len(download_queue) <= QueueMaxsize
  /\ Len(parse_queue) <= QueueMaxsize
  /\ Len(storage_queue) <= QueueMaxsize

\* C32: once a chunk has been checked, the loop has slept exactly when more
\* than 80% of the results of that chunk were throttle failures, and has
\* printed the warning exactly when more than 50% of them were, whatever the
\* results of the chunks before it.
C32_CooldownFromThisChunk ==
  cd_pc = "store" =>
    /\ cd_slept <=> 10 * cd_results["rate_limited"] > 8 * CdBatchLen
    /\ cd_warned <=> 2 * cd_results["rate_limited"] > CdBatchLen

\* C32 witness: every result of the first chunk was a throttle failure, and
\* the second chunk, of five results of which four were throttle failures,
\* got the warning and no sleep.
C32_Witness ==
  /\ cd_pc = "store"
  /\ cd_i > 1
  /\ rate_limit_errors = DownloadBatchSize + 4
  /\ CdBatchLen = 5
  /\ cd_results["rate_limited"] = 4
  /\ cd_warned
  /\ ~cd_slept

\* C33: whenever backoff_active is false, the count of consecutive
\* successes is 0 and the ceiling is the original maximum.
C33_InactiveMeansReset ==
  ~backoff_active =>
    /\ consecutive_successes = 0
    /\ max_requests = original_max_requests

\* C34: a run of process_date_range, the first on its BulkProcessor or a
\* later one, is never left waiting for its download queue with descriptors
\* pending and every download worker gone.
C34_RerunIsServed ==
  ~(/\ cpc = "join_download"
    /\ unfinished.download > 0
    /\ \A w \in DlWorkers : dpc[w] = "exited")

\* The staleness test of the incremental selection on a row at time t.
ClassifiedStale(rec, t) ==
  /\ rec.status = "in_progress"
  /\ rec.download_started # Null
  /\ t - rec.download_started > StaleHours

\* C35: when the loop of either orchestrator marks a unit in_progress, the
\* unit's started timestamp is the time of that step, and the staleness test
\* of the incremental selection does not hold of the unit at that time.
C35_ReentryRestartsClock ==
  [][(BeginUnit /\ opc' = "unit") =>
       LET year == years_to_process[oidx]
       IN /\ downloaded_years'[year].download_started = hour
          /\ ~ClassifiedStale(downloaded_years'[year], hour)]_vars

\* The results of a chunk whose fetch failed.
FailedFetches(results) == {i \in 1..Len(results) : results[i].status = "error"}

\* C36: when a run of download_and_store_filings that attempted at least one
\* descriptor has returned and no fetched content was refused by the
\* database, the errors it returns count each failed fetch once, and
\* downloaded + errors is the number of descriptors attempted.
C36_FetchErrorCountedOnce ==
  (/\ bpc = "idle"
   /\ hist # <<>>
   /\ lastPass.valid
   /\ hist[Len(hist)].to_process # <<>>
   /\ FailingItems(lastPass.results) = {}) =>
    LET run == hist[Len(hist)]
    IN /\ run.stats.errors = Cardinality(FailedFetches(lastPass.results))
       /\ run.stats.downloaded + run.stats.errors = Len(run.to_process)

\* The number of positions of the sequence q that hold a, and of the
\* sequence of results q whose accession number is a.
Occurrences(q, a) == Cardinality({i \in 1..Len(q) : q[i] = a})

ResultsFor(q, a) == Cardinality({i \in 1..Len(q) : q[i].acc = a})

\* The download workers that have taken a descriptor and not yet fetched it.
Holding(a) == {w \in DlWorkers : dpc[w] = "have" /\ ditem[w] = a}

\* The chunk starts of a work list of n descriptors and the positions of
\* the chunk that starts at i: range(0, n, size) and [i:i + size].
ChunkStarts(n) == {i \in 1..n : (i - 1) % DownloadBatchSize = 0}

PositionsOfChunk(i, n) == {k \in 1..n : i <= k /\ k < i + DownloadBatchSize}

\* Every position of a work list of up to one full chunk and MaxExtraFilings
\* more lies in exactly one chunk.
ChunksPartition ==
  \A n \in 1..(DownloadBatchSize + MaxExtraFilings) : \A k \in 1..n :
    Cardinality({i \in ChunkStarts(n) : k \in PositionsOfChunk(i, n)}) = 1

\* C37: in the pipeline every descriptor put on the download queue is in
\* one place only: still queued, taken by one download worker, or fetched
\* once; in the bulk path the chunks partition the work list, the chunk
\* being fetched starts at a chunk start, and each of its positions has
\* given at most one result.
C37_FetchedByOneWorker ==
  /\ Len(download_queue) + Cardinality({w \in DlWorkers : dpc[w] = "have"})
       + attempts.dl_ok + attempts.dl_err = cidx - 1
  /\ \A a \in Accs :
       Occurrences(download_queue, a) + Cardinality(Holding(a))
         + attempts.fetched[a]
         <= Occurrences(SubSeq(filings, 1, cidx - 1), a)
  /\ ChunksPartition
  /\ bpc \in {"fetch", "store"} =>
       /\ chunk_i \in ChunkStarts(Len(to_process))
       /\ fetched \subseteq PositionsOfChunk(chunk_i, Len(to_process))
       /\ Len(batch_results) = Cardinality(fetched)
       /\ \A a \in Accs :
            ResultsFor(batch_results, a)
              = Cardinality({k \in fetched : to_process[k] = a})

\* C37 witness: two descriptors with the same accession number were put on
\* the queue and the two download workers hold one each.
C37_Witness ==
  /\ filings = <<1, 1>>
  /\ cidx = 3
  /\ download_queue = <<>>
  /\ \A w \in DlWorkers : dpc[w] = "have" /\ ditem[w] = 1

\* The workers of a stage that have taken an item and not yet acknowledged it.
DlBusy == {w \in DlWorkers : dpc[w] \in {"have", "inc"}}

PaBusy == {w \in PaWorkers : ppc[w] \in {"have", "inc"}}

\* C38: the unfinished count of the download queue and of the parse queue
\* is the number of items queued plus the number taken and not yet
\* acknowledged, an item passed on being counted on the next queue from the
\* step that passes it on; so once the wait on the download queue has
\* returned no download worker holds an item and everything the download
\* stage passed on is queued for or held by the parse stage or acknowledged
\* there, and likewise for the parse stage once the wait on the parse queue
\* has returned.
C38_PassedOnBeforeDone ==
  /\ unfinished.download = Len(download_queue) + Cardinality(DlBusy)
  /\ unfinished.parse = Len(parse_queue) + Cardinality(PaBusy)
  /\ unfinished.storage >= Len(storage_queue)
  /\ cpc \in {"join_parse", "join_storage", "join_workers", "returned"} =>
       /\ download_queue = <<>>
       /\ DlBusy = {}
       /\ attempts.dl_ok + attempts.dl_err = Len(filings)
       /\ attempts.dl_ok = unfinished.parse + attempts.parse_ok + attempts.parse_err
                             - Cardinality({w \in PaWorkers : ppc[w] = "inc"})
  /\ cpc \in {"join_storage", "join_workers", "returned"} =>
       /\ parse_queue = <<>>
       /\ PaBusy = {}
       /\ attempts.parse_ok + attempts.parse_err = attempts.dl_ok

\* C38 witness: the wait on the download queue has returned while both
\* fetched items are still queued for parsing, counted there as unfinished.
C38_Witness ==
  /\ cpc = "join_parse"
  /\ Len(parse_queue) = 2
  /\ unfinished.parse = 2
  /\ unfinished.download = 0

\* C39: while a run of either orchestrator goes through its selected units,
\* every unit the loop has left behind has status completed or failed; so
\* when the loop ends and the run returns, none of the selected units is
\* in_progress, whatever the outcomes of the units were.
C39_NoUnitLeftInProgress ==
  opc \in {"loop", "unit"} =>
    \A i \in 1..Len(years_to_process) :
      i < oidx =>
        downloaded_years[years_to_process[i]].status \in {"completed", "failed"}

\* C39 witness: a second run, of the scraper, is at the end of its loop over
\* two units, the first completed and the second failed for want of filings.
C39_Witness ==
  /\ runNo = 2
  /\ opath = "scraper"
  /\ opc = "loop"
  /\ years_to_process = <<1, 2>>
  /\ oidx = 3
  /\ downloaded_years[1].status = "completed"
  /\ downloaded_years[2].status = "failed"
  /\ downloaded_years[2].error_message = "Download failed"

\* C40: a unit that a run has marked completed has every descriptor
\* discovered for it in the store.
C40_CompletedMeansStored ==
  \A y \in Years :
    downloaded_years[y].status = "completed" =>
      \A i \in 1..Len(all_filings) : all_filings[i] \in AccsOf(store)

====
